---- MODULE Spec2Model ----
(***************************************************************************)
(* State-machine model of note_hammer/android_automation.py:               *)
(* AndroidKindleAutomator.export_collection_notes and the procedures it    *)
(* drives (navigation, enumeration with pagination, the per-item export    *)
(* workflow with retries, recovery, the summary).                          *)
(*                                                                         *)
(* The device is the environment.  Every device command                    *)
(* (run_adb_command) or blocking sleep is a point where the environment    *)
(* answers: the command returns ("ok"), the command raises an Exception    *)
(* ("exc": subprocess.CalledProcessError and the like), or the user        *)
(* interrupts ("ki": KeyboardInterrupt).  What the screen shows is chosen  *)
(* by the environment at every snapshot.                                   *)
(***************************************************************************)
EXTENDS Integers, Sequences, FiniteSets, TLC

\* ---------------------------------------------------------------- bounds
MaxTitles == 2
MaxVisible == 2
MaxRetry == 2
MaxNotes == 3

\* ------------------------------------------------------ program constants
max_scroll_attempts == 50
max_attempts == 10
max_close_attempts == 3
max_backs == 5

Titles == 1..MaxTitles

VARIABLES
  pc,              \* position of the single thread of control
  max_books,       \* Optional[int]: << >> is None, <<m>> is the integer m
  retry_attempts,  \* int
  export_stats,    \* self.export_stats
  home_caller,     \* who called _navigate_to_home: "launch" | "nav"
  home_i,          \* loop variable `attempt` of _navigate_to_home (0 when
                   \* the function is not running; so for every loop variable)
  nav_caller,      \* who called navigate_to_collection: "run" | "recover"
                   \* ("run" when no call is active; so for rtc_caller)
  menu_i,          \* loop variable of the View/Sort menu closing loop
  nav_result,      \* value of navigate_to_collection() at line 816
  library_found,   \* navigate_to_collection: library_elements is not empty
  lib_taps,        \* navigate_to_collection: the taps issued for the LIBRARY
                   \* tab by the running call, "text" or "fallback"
  all_books,       \* local of get_all_books_in_collection
  seen_titles,     \* local of get_all_books_in_collection
  scroll_attempts, \* local of get_all_books_in_collection: the scroll
                   \* gestures issued by the running enumeration
  visible_books,   \* local of get_all_books_in_collection (last snapshot)
  books,           \* local of export_collection_notes
  idx,             \* 1-based position of the item loop (enumerate(books, 1))
  attempt,         \* loop variable of export_book_notes_with_retry
  rtc_caller,      \* who called _return_to_collection: "wf_ok"|"wf_exc"|"coord"
  rtc_i,           \* loop variable of _return_to_collection
  unwind_left,     \* back presses still to issue on a failed stage
  outcome,         \* how the run function ended: "running" | "returned" |
                   \* "Exception" | "KeyboardInterrupt"
  summary_logged,  \* number of executions of _log_export_summary
  \* the device
  at_collection,   \* the application shows the collection view (a snapshot
                   \* then holds lib_book_row_title)
  last,            \* answer of the device to the latest step: "ok", "exc"
                   \* (a command raised) or "ki" (KeyboardInterrupt)
  \* observations of the run (history variables)
  shown,           \* titles that appeared in a snapshot of this enumeration
  nSnap,           \* snapshots taken by the running enumeration
  nInvoked,        \* invocations of export_book_notes for the current item
  item_ok,         \* an invocation for the current item returned True
  outcomes,        \* per processed item: "ok" | "fail" | "error"
  wf_ran,          \* some export workflow stage has been executed
  wf_failed,       \* a stage of the running export_book_notes reported failure
  confirm,         \* what _confirm_onedrive_upload did in the running
                   \* export_book_notes, kept until the pause that follows
                   \* its return: "none" (not run) | "tapped" | "assumed" |
                   \* "failed"
  \* a procedure of the automator run on its own (ProcSpec)
  proc,            \* the procedure called ("none": no such call)
  proc_pc,         \* position in the procedure
  proc_i,          \* its loop variable
  proc_loc,        \* its arguments and locals
  trace,           \* the device interactions it has issued, in order
  ret              \* how it ended: "none" (running) | "true" | "false" |
                   \* "returned" (None) | "raised"

cfgv  == <<max_books, retry_attempts>>
homev == <<home_caller, home_i>>
libv  == <<library_found, lib_taps>>
navv  == <<homev, nav_caller, menu_i, nav_result, libv>>
enumv == <<all_books, seen_titles, scroll_attempts, visible_books, shown,
           nSnap>>
loopv == <<idx, attempt, nInvoked, item_ok, outcomes>>
wfv   == <<rtc_caller, rtc_i, unwind_left, wf_failed>>
endv  == <<outcome, summary_logged>>
procv == <<proc, proc_pc, proc_i, proc_loc, trace, ret>>
mainv == <<pc, cfgv, export_stats, navv, enumv, books, loopv, wfv,
           wf_ran, confirm, endv, at_collection, last>>
vars  == <<mainv, procv>>

\* ------------------------------------------------------------- helpers
CmdResults == {"ok", "exc", "ki"}

\* what a step's outcome says about the device's answer: every outcome
\* other than a raise means that the commands of the step returned
Answer(o) == IF o \in {"exc", "ki"} THEN o ELSE "ok"

ZeroStats == [attempted |-> 0, successful |-> 0, failed |-> 0,
              failed_books |-> << >>]

\* variant: every integer counts, zero included
Truthy_NotNone(m) == m # << >>

\* Python truthiness of an Optional[int]
Truthy(m) == m # << >> /\ m[1] # 0

Min(a, b) == IF a < b THEN a ELSE b

\* Python slice s[:n] for n >= 0
Take(s, n) == SubSeq(s, 1, Min(n, Len(s)))

\* variant: every raise is handled as an interrupt
Outer_InterruptOnly(r) == "interrupted"

\* the handler of the outer try of export_collection_notes
Outer(r) == IF r = "exc" THEN "fatal" ELSE "interrupted"

\* a UI snapshot of the collection: the elements get_visible_books returns
UIElement(t, i) == [text |-> t, y |-> i]
Snapshots ==
  UNION {{[i \in 1..n |-> UIElement(ts[i], i)] : ts \in [1..n -> Titles]}
         : n \in 0..MaxVisible}

\* press_key("KEYCODE_BACK"), lines 82-85, as the code relies on it
\* (lines 769-780): from the collection view a back press leaves it; from
\* elsewhere it may or may not bring the collection view back
AfterBack(ac) == IF ac THEN {FALSE} ELSE BOOLEAN

\* no procedure is run on its own
NoProc ==
  /\ proc = "none" /\ proc_pc = "none" /\ proc_i = 0
  /\ proc_loc = << >> /\ trace = << >> /\ ret = "none"

\* ----------------------------------------------------------------- Init
\* __init__ (lines 24-43): the configuration is fixed for the run, the
\* statistics start at zero.
Init ==
  /\ pc = "idle"
  /\ max_books \in {<< >>} \cup {<<m>> : m \in 0..MaxTitles}
  /\ retry_attempts \in 0..MaxRetry
  /\ export_stats = ZeroStats
  /\ home_caller = "launch" /\ home_i = 0
  /\ nav_caller = "run" /\ menu_i = 0 /\ nav_result = "none"
  /\ library_found = FALSE /\ lib_taps = << >>
  /\ all_books = << >> /\ seen_titles = {} /\ scroll_attempts = 0
  /\ visible_books = << >> /\ shown = {} /\ nSnap = 0
  /\ books = << >>
  /\ idx = 0 /\ attempt = 0 /\ nInvoked = 0 /\ item_ok = FALSE
  /\ outcomes = << >>
  /\ rtc_caller = "wf_ok" /\ rtc_i = 0 /\ unwind_left = 0
  /\ wf_ran = FALSE /\ wf_failed = FALSE
  /\ outcome = "running" /\ summary_logged = 0
  /\ at_collection = FALSE /\ last = "ok"
  /\ confirm = "none"
  /\ NoProc

\* ------------------------------------------------- run start and launch
\* export_collection_notes, lines 802-810: reset of the statistics
StartRun ==
  /\ pc = "idle"
  /\ export_stats' = ZeroStats
  /\ pc' = "launch"
  /\ last' = "ok"
  /\ UNCHANGED <<procv, confirm, cfgv, navv, enumv, books, loopv, wfv, wf_ran,
                 endv, at_collection>>

\* launch_kindle, lines 126-140: the monkey command, then _navigate_to_home
LaunchKindle ==
  /\ pc = "launch"
  /\ \E r \in CmdResults :
       /\ last' = r
       /\ IF r = "ok"
          THEN /\ pc' = "home"
               /\ home_caller' = "launch"
               /\ home_i' = 0
          ELSE /\ pc' = Outer(r)
               /\ UNCHANGED homev
  /\ UNCHANGED <<procv, confirm, cfgv, export_stats, nav_caller, menu_i,
                 nav_result, libv, enumv, books, loopv, wfv, wf_ran, endv,
                 at_collection>>

\* where control goes when _navigate_to_home returns: launch_kindle returns
\* to line 816, which calls navigate_to_collection, which calls
\* _navigate_to_home again (line 175); that one returns to line 176.
HomeReturn ==
  IF home_caller = "launch"
  THEN /\ pc' = "home"
       /\ home_caller' = "nav"
       /\ home_i' = 0
       /\ nav_caller' = "run"
  ELSE /\ pc' = "nav_library"
       /\ home_i' = 0
       /\ UNCHANGED <<home_caller, nav_caller>>

\* _navigate_to_home, lines 142-168: one iteration of the loop
\* (snapshot, indicator check, back press) or the exit after max_attempts.
\* The screen had no home indicator when back was pressed; wherever that
\* leads, the collection is entered anew by the tap of lines 293-310.
NavigateToHome ==
  /\ pc = "home"
  /\ IF home_i < max_attempts
     THEN \E o \in {"found", "pressed", "exc", "ki"} :
            /\ last' = Answer(o)
            /\ at_collection' = IF o = "pressed" THEN FALSE
                                ELSE at_collection
            /\ CASE o = "found"   -> HomeReturn
                 [] o = "pressed" -> /\ home_i' = home_i + 1
                                     /\ UNCHANGED <<pc, home_caller, nav_caller>>
                 [] OTHER         -> /\ pc' = Outer(o)
                                     /\ home_i' = 0
                                     /\ UNCHANGED <<home_caller, nav_caller>>
     ELSE /\ HomeReturn
          /\ last' = "ok"
          /\ UNCHANGED at_collection
  /\ UNCHANGED <<procv, confirm, cfgv, export_stats, menu_i, nav_result, libv,
                 enumv, books, loopv, wfv, wf_ran, endv>>

\* variant: the fallback tap is issued although the text match found the tab
LibraryTaps_AlwaysFallback(found) ==
  IF found THEN <<"text", "fallback">> ELSE <<"fallback">>

\* navigate_to_collection, lines 179-186: the taps issued for the LIBRARY
\* tab, given whether find_elements_by_text("LIBRARY") found an element
LibraryTaps(found) == IF found THEN <<"text">> ELSE <<"fallback">>

\* navigate_to_collection, lines 176-189: the LIBRARY tab is tapped where
\* the text match found it, or at the fixed fallback coordinates
NavLibrary ==
  /\ pc = "nav_library"
  /\ \E found \in BOOLEAN, r \in CmdResults :
       /\ last' = r
       /\ IF r = "ok"
          THEN /\ pc' = "nav_menu"
               /\ menu_i' = 0
               /\ library_found' = found
               /\ lib_taps' = lib_taps \o LibraryTaps(found)
               /\ at_collection' = FALSE
          ELSE /\ pc' = Outer(r)
               /\ UNCHANGED <<menu_i, libv, at_collection>>
  /\ UNCHANGED <<procv, confirm, cfgv, export_stats, homev, nav_caller,
                 nav_result, enumv, books, loopv, wfv, wf_ran, endv>>

\* navigate_to_collection, lines 192-202: one iteration of the loop that
\* closes an open View/Sort menu, or its exit
NavCloseMenu ==
  /\ pc = "nav_menu"
  /\ IF menu_i < max_close_attempts
     THEN \E o \in {"open", "closed", "exc", "ki"} :
            /\ last' = Answer(o)
            /\ CASE o = "open"   -> /\ menu_i' = menu_i + 1
                                    /\ UNCHANGED <<pc, libv>>
                 [] o = "closed" -> /\ pc' = "nav_resolve"
                                    /\ menu_i' = 0
                                    /\ UNCHANGED libv
                 [] OTHER        -> /\ pc' = Outer(o)
                                    /\ menu_i' = 0
                                    /\ library_found' = FALSE
                                    /\ lib_taps' = << >>
     ELSE /\ pc' = "nav_resolve"
          /\ menu_i' = 0
          /\ last' = "ok"
          /\ UNCHANGED libv
  /\ UNCHANGED <<procv, confirm, cfgv, export_stats, homev, nav_caller,
                 nav_result, enumv, books, loopv, wfv, wf_ran, endv,
                 at_collection>>

\* variant: a failed navigation raises instead of returning
AfterNavigate_Raises(ok) == IF ok THEN "enum" ELSE "fatal"

\* variant: the result of navigate_to_collection is not tested
AfterNavigate_Ignored(ok) == "enum"

\* export_collection_notes, lines 816-821: a false result of
\* navigate_to_collection returns the statistics at once, a true one
\* goes on to the enumeration
AfterNavigate(ok) == IF ok THEN "enum" ELSE "done"

\* navigate_to_collection, lines 204-310: the collection card is looked up
\* in a fresh snapshot.  The snapshot may fail to parse (return False), may
\* hold no matching Button (return False), or the topmost match is tapped
\* (return True).  The value goes to line 816 (caller "run"), or is dropped
\* at line 869 (caller "recover"), where the item loop goes on.
NavResolve ==
  /\ pc = "nav_resolve"
  /\ library_found' = FALSE
  /\ lib_taps' = << >>
  /\ \E o \in {"parse_error", "not_found", "tapped", "exc", "ki"} :
       /\ last' = Answer(o)
       /\ at_collection' = IF o = "tapped" THEN TRUE ELSE at_collection
       /\ IF o \in {"exc", "ki"}
          THEN /\ pc' = Outer(o)
               /\ UNCHANGED <<nav_result, nav_caller, idx, outcome>>
          ELSE IF nav_caller = "run"
               THEN /\ nav_result' = o
                    /\ pc' = AfterNavigate(o = "tapped")
                    /\ outcome' = IF pc' = "done" THEN "returned" ELSE outcome
                    /\ UNCHANGED <<nav_caller, idx>>
               ELSE /\ pc' = "item_loop"
                    /\ idx' = idx + 1
                    /\ nav_caller' = "run"
                    /\ UNCHANGED <<nav_result, outcome>>
  /\ UNCHANGED <<procv, confirm, cfgv, export_stats, homev, menu_i, enumv,
                 books, attempt, nInvoked, item_ok, outcomes, wfv, wf_ran,
                 summary_logged>>
\* ---------------------------------------------------------- enumeration
\* variant: an element is taken as new when no equal element (title and
\* position) is in the list, instead of when its title is unseen
RECURSIVE AddBooks_ByElement(_, _, _)
AddBooks_ByElement(vis, acc, mb) ==
  IF vis = << >> \/ acc.hit THEN acc
  ELSE LET book == Head(vis) IN
       IF \A i \in 1..Len(acc.all) : acc.all[i] # book
       THEN LET all2 == Append(acc.all, book) IN
            AddBooks_ByElement(Tail(vis),
                     [all  |-> all2,
                      seen |-> acc.seen \cup {book.text},
                      new  |-> TRUE,
                      hit  |-> Truthy(mb) /\ Len(all2) >= mb[1]],
                     mb)
       ELSE AddBooks_ByElement(Tail(vis), acc, mb)

\* variant: the cap is tested with > instead of >=
RECURSIVE AddBooks_LateCap(_, _, _)
AddBooks_LateCap(vis, acc, mb) ==
  IF vis = << >> \/ acc.hit THEN acc
  ELSE LET book == Head(vis) IN
       IF book.text \notin acc.seen
       THEN LET all2 == Append(acc.all, book) IN
            AddBooks_LateCap(Tail(vis),
                     [all  |-> all2,
                      seen |-> acc.seen \cup {book.text},
                      new  |-> TRUE,
                      hit  |-> Truthy(mb) /\ Len(all2) > mb[1]],
                     mb)
       ELSE AddBooks_LateCap(Tail(vis), acc, mb)

\* get_all_books_in_collection, lines 410-419: the for loop over one
\* snapshot.  acc = [all, seen, new, hit]; the loop stops at the element
\* that makes the count reach a truthy max_books (hit), and the function
\* then returns all[:max_books].
RECURSIVE AddBooks(_, _, _)
AddBooks(vis, acc, mb) ==
  IF vis = << >> \/ acc.hit THEN acc
  ELSE LET book == Head(vis) IN
       IF book.text \notin acc.seen
       THEN LET all2 == Append(acc.all, book) IN
            AddBooks(Tail(vis),
                     [all  |-> all2,
                      seen |-> acc.seen \cup {book.text},
                      new  |-> TRUE,
                      hit  |-> Truthy(mb) /\ Len(all2) >= mb[1]],
                     mb)
       ELSE AddBooks(Tail(vis), acc, mb)

\* variant: the loop scrolls on after a snapshot that added nothing
AfterSnapshot_AlwaysScroll(new) == "enum_scroll"

\* get_all_books_in_collection, lines 421-429: after a snapshot that added
\* nothing the loop breaks, otherwise it scrolls
AfterSnapshot(new) == IF new THEN "enum_scroll" ELSE "check_books"

\* variant: the loop has no ceiling
LoopContinues_NoCeiling(s) == TRUE

\* get_all_books_in_collection, line 404: the loop test
LoopContinues(s) == s < max_scroll_attempts

\* get_all_books_in_collection, lines 404-424 and 432-433: the loop test,
\* one snapshot (get_visible_books) drawn from S and the bookkeeping of its
\* elements
EnumSnapshotFrom(S) ==
  /\ pc = "enum"
  /\ IF LoopContinues(scroll_attempts)
     THEN \E r \in CmdResults :
            /\ last' = r
            /\ IF r = "ok"
               THEN \E vis \in S :
                      LET acc == AddBooks(vis, [all |-> all_books,
                                                seen |-> seen_titles,
                                                new |-> FALSE, hit |-> FALSE],
                                          max_books)
                      IN /\ visible_books' = vis
                         /\ shown' = shown \cup
                                       {vis[i].text : i \in 1..Len(vis)}
                         /\ nSnap' = nSnap + 1
                         /\ all_books' = acc.all
                         /\ seen_titles' = acc.seen
                         /\ IF acc.hit
                            THEN /\ books' = Take(acc.all, max_books[1])
                                 /\ pc' = "check_books"
                            ELSE /\ pc' = AfterSnapshot(acc.new)
                                 /\ books' = IF pc' = "check_books"
                                             THEN acc.all ELSE books
               ELSE /\ pc' = Outer(r)
                    /\ UNCHANGED <<visible_books, shown, nSnap, all_books,
                                   seen_titles, books>>
     ELSE /\ pc' = "check_books"
          /\ books' = all_books
          /\ last' = "ok"
          /\ UNCHANGED <<visible_books, shown, nSnap, all_books, seen_titles>>
  /\ UNCHANGED <<procv, confirm, cfgv, export_stats, navv, scroll_attempts,
                 loopv, wfv, wf_ran, endv, at_collection>>

\* get_visible_books (lines 312-390) on a device that shows any list
EnumSnapshot == EnumSnapshotFrom(Snapshots)

\* get_all_books_in_collection, lines 426-430, and scroll_down_in_collection,
\* lines 435-445: one swipe
EnumScroll ==
  /\ pc = "enum_scroll"
  /\ \E r \in CmdResults :
       /\ last' = r
       /\ IF r = "ok"
          THEN /\ scroll_attempts' = scroll_attempts + 1
               /\ pc' = "enum"
          ELSE /\ pc' = Outer(r)
               /\ UNCHANGED scroll_attempts
  /\ UNCHANGED <<procv, confirm, cfgv, export_stats, navv, all_books,
                 seen_titles, visible_books, shown, nSnap, books, loopv, wfv,
                 wf_ran, endv, at_collection>>

\* variant: the empty result is not tested
AfterEnumerate_NoEmptyCheck(bs) == "item_loop"

\* export_collection_notes, lines 825-839: an empty list returns the
\* statistics at once, otherwise the item loop starts
AfterEnumerate(bs) == IF bs = << >> THEN "done" ELSE "item_loop"

\* export_collection_notes, lines 821-839: the enumeration has returned
\* (its locals are gone) and its result is tested
CheckBooks ==
  /\ pc = "check_books"
  /\ all_books' = << >> /\ seen_titles' = {} /\ scroll_attempts' = 0
  /\ visible_books' = << >> /\ shown' = {} /\ nSnap' = 0
  /\ pc' = AfterEnumerate(books)
  /\ last' = "ok"
  /\ IF pc' = "done"
     THEN /\ outcome' = "returned"
          /\ UNCHANGED idx
     ELSE /\ idx' = 1
          /\ UNCHANGED outcome
  /\ UNCHANGED <<procv, confirm, cfgv, export_stats, navv, books, attempt,
                 nInvoked, item_ok, outcomes, wfv, wf_ran, summary_logged,
                 at_collection>>

\* ------------------------------------------------------------ item loop
\* line 844
RecordAttempt(st) == [st EXCEPT !.attempted = @ + 1]

\* variant: a success is counted in the wrong counter
RecordSuccess_AsFailure(st) == [st EXCEPT !.failed = @ + 1]

\* line 848
RecordSuccess(st) == [st EXCEPT !.successful = @ + 1]

\* variant: the failure is counted but its title is not appended
RecordFailure_NoAppend(st, title) == [st EXCEPT !.failed = @ + 1]

\* lines 851-852 and 859-860
RecordFailure(st, title) ==
  [st EXCEPT !.failed = @ + 1, !.failed_books = Append(@, title)]

\* export_collection_notes, lines 839-844: the next item is taken and
\* counted as attempted
NextItem ==
  /\ pc = "item_loop"
  /\ idx <= Len(books)
  /\ export_stats' = RecordAttempt(export_stats)
  /\ attempt' = 0
  /\ nInvoked' = 0
  /\ item_ok' = FALSE
  /\ pc' = "retry"
  /\ last' = "ok"
  /\ UNCHANGED <<procv, confirm, cfgv, navv, enumv, books, idx, outcomes, wfv,
                 wf_ran, endv, at_collection>>

\* export_collection_notes, lines 871-872 and 883: the loop is over, the
\* summary is logged and the statistics are returned
FinishLoop ==
  /\ pc = "item_loop"
  /\ idx > Len(books)
  /\ summary_logged' = summary_logged + 1
  /\ outcome' = "returned"
  /\ pc' = "done"
  /\ last' = "ok"
  /\ UNCHANGED <<procv, confirm, cfgv, export_stats, navv, enumv, books,
                 loopv, wfv, wf_ran, at_collection>>

\* variant: the first attempt is made whatever the configuration
RetryContinues_AtLeastOnce(a, n) == a = 0 \/ a < n

\* variant: one attempt too many
RetryContinues_OneMore(a, n) == a <= n

\* export_book_notes_with_retry, line 786: the test of range(retry_attempts)
RetryContinues(a, n) == a < n

\* variant: a retry resumes after the first stage
RetryEntry_Resumes(a) == IF a > 0 THEN "wf_export" ELSE "wf_open"

\* export_book_notes_with_retry, line 791, and export_book_notes, lines
\* 451-453: attempt number a calls export_book_notes, which starts with
\* _open_book_notes_view
RetryEntry(a) == "wf_open"

\* export_book_notes_with_retry, lines 784-794, with lines 847-853 of the
\* caller: either one more invocation of export_book_notes starts (after a
\* 2 s sleep from the second attempt on), or the attempts are used up, False
\* is returned and the coordinator records the failure
ExportWithRetry ==
  /\ pc = "retry"
  /\ IF RetryContinues(attempt, retry_attempts)
     THEN \E r \in {"ok", "ki"} :
            /\ r = "ki" => attempt > 0
            /\ last' = r
            /\ IF r = "ok"
               THEN /\ nInvoked' = nInvoked + 1
                    /\ pc' = RetryEntry(attempt)
               ELSE /\ pc' = "interrupted"
                    /\ UNCHANGED nInvoked
            /\ UNCHANGED <<export_stats, outcomes>>
     ELSE /\ export_stats' = RecordFailure(export_stats, books[idx].text)
          /\ outcomes' = Append(outcomes, "fail")
          /\ pc' = "pause"
          /\ last' = "ok"
          /\ UNCHANGED nInvoked
  /\ UNCHANGED <<procv, confirm, cfgv, navv, enumv, books, idx, attempt,
                 item_ok, wfv, wf_ran, endv, at_collection>>

\* export_collection_notes, lines 855-856: the pause between two items
Pause ==
  /\ pc = "pause"
  /\ \E r \in {"ok", "ki"} :
       /\ last' = r
       /\ IF r = "ok"
          THEN /\ pc' = "item_loop"
               /\ idx' = idx + 1
          ELSE /\ pc' = "interrupted"
               /\ UNCHANGED idx
  /\ confirm' = "none"
  /\ UNCHANGED <<procv, cfgv, export_stats, navv, enumv, books,
                 attempt, nInvoked, item_ok, outcomes, wfv, wf_ran, endv,
                 at_collection>>

\* ------------------------------------------------------ export workflow
\* variant: one back press whatever the stage
BacksOnFailure_One(k) == 1

\* export_book_notes, lines 455, 460, 467-469, 476-480: the back presses
\* issued when stage k has failed
BacksOnFailure(k) == k - 1

\* variant: a failed stage falls through to the next stage
StageFailurePc_FallsThrough(k, next) == next

\* export_book_notes, lines 453-482: where control goes when stage k has
\* reported failure: back presses first if there are any, then return False
\* to the retry loop
StageFailurePc(k, next) ==
  IF BacksOnFailure(k) = 0 THEN "retry" ELSE "wf_unwind"

\* variant: the format stage is skipped
StageSuccessPc_SkipsFormat(k, next) == IF k = 2 THEN "wf_onedrive" ELSE next

\* export_book_notes, lines 453-474: the `if not <stage>` blocks follow one
\* another, so a stage that reported success is followed by the next one
StageSuccessPc(k, next) == next

\* export_book_notes, lines 451-482: stage k of the workflow.  It succeeds
\* (the next stage follows), reports failure (the workflow unwinds and
\* returns False), raises (handler of line 499, which calls
\* _return_to_collection) or is interrupted.  A stage that succeeded has
\* taken the application out of the collection view; one that did not may
\* have done so before it gave up.
WfStage(k, here, next) ==
  /\ pc = here
  /\ wf_ran' = TRUE
  /\ \E r \in {"ok", "fail", "exc", "ki"} :
       /\ last' = Answer(r)
       /\ at_collection' \in CASE r = "ok" -> {FALSE}
                               [] r = "ki" -> {at_collection}
                               [] OTHER    -> {at_collection, FALSE}
       /\ CASE r = "ok"   -> /\ pc' = StageSuccessPc(k, next)
                             /\ UNCHANGED <<attempt, wfv>>
            [] r = "fail" -> /\ pc' = StageFailurePc(k, next)
                             /\ IF pc' = "retry"
                                THEN /\ attempt' = attempt + 1
                                     /\ UNCHANGED wfv
                                ELSE /\ wf_failed' = TRUE
                                     /\ unwind_left' = BacksOnFailure(k)
                                     /\ UNCHANGED <<attempt, rtc_caller,
                                                    rtc_i>>
            [] r = "exc"  -> /\ pc' = "rtc"
                             /\ rtc_caller' = "wf_exc"
                             /\ rtc_i' = 0
                             /\ UNCHANGED <<attempt, unwind_left, wf_failed>>
            [] r = "ki"   -> /\ pc' = "interrupted"
                             /\ UNCHANGED <<attempt, wfv>>
  /\ UNCHANGED <<procv, confirm, cfgv, export_stats, navv, enumv, books, idx,
                 nInvoked, item_ok, outcomes, endv>>

\* lines 452-455 with _open_book_notes_view, lines 505-575
OpenBookNotesView == WfStage(1, "wf_open", "wf_export")

\* lines 457-462 with _tap_export_button, lines 577-644
TapExportButton == WfStage(2, "wf_export", "wf_notebook")

\* lines 464-471 with _select_export_notebook, lines 646-684
SelectExportNotebook == WfStage(3, "wf_notebook", "wf_onedrive")

\* lines 473-482 with _select_onedrive_share, lines 686-727
SelectOneDriveShare == WfStage(4, "wf_onedrive", "wf_confirm")

\* export_book_notes, lines 460-462, 467-471, 476-482: one back press of
\* the unwinding; after the last one the workflow returns False
WfUnwind ==
  /\ pc = "wf_unwind"
  /\ \E r \in CmdResults :
       /\ last' = r
       /\ at_collection' \in IF r = "ok" THEN AfterBack(at_collection)
                             ELSE {at_collection}
       /\ CASE r = "ok"  -> IF unwind_left > 1
                            THEN /\ unwind_left' = unwind_left - 1
                                 /\ UNCHANGED <<pc, attempt, rtc_caller,
                                                rtc_i, wf_failed>>
                            ELSE /\ unwind_left' = 0
                                 /\ pc' = "retry"
                                 /\ attempt' = attempt + 1
                                 /\ wf_failed' = FALSE
                                 /\ UNCHANGED <<rtc_caller, rtc_i>>
            [] r = "exc" -> /\ pc' = "rtc"
                            /\ rtc_caller' = "wf_exc"
                            /\ rtc_i' = 0
                            /\ unwind_left' = 0
                            /\ wf_failed' = FALSE
                            /\ UNCHANGED attempt
            [] r = "ki"  -> /\ pc' = "interrupted"
                            /\ unwind_left' = 0
                            /\ wf_failed' = FALSE
                            /\ UNCHANGED <<attempt, rtc_caller, rtc_i>>
  /\ UNCHANGED <<procv, confirm, cfgv, export_stats, navv, enumv, books, idx,
                 nInvoked, item_ok, outcomes, wf_ran, endv>>

\* variant: without a confirm button the stage reports failure
ConfirmOutcome_Strict(found) == IF found THEN "tapped" ELSE "failed"

\* _confirm_onedrive_upload, lines 729-763: the stage taps the confirm
\* button it found ("tapped", return True of line 755) or, having found
\* none, the fallback position ("assumed", return True of line 763); it
\* has no return False
ConfirmOutcome(found) == IF found THEN "tapped" ELSE "assumed"

\* export_book_notes, lines 484-494: the confirm stage, whose report only
\* decides about a warning (485-487); then the export delay, then
\* _return_to_collection
ConfirmOneDriveUpload ==
  /\ pc = "wf_confirm"
  /\ wf_ran' = TRUE
  /\ \E r \in CmdResults, found \in BOOLEAN :
       /\ last' = r
       /\ CASE r = "ok"  -> /\ pc' = "rtc"
                            /\ rtc_caller' = "wf_ok"
                            /\ rtc_i' = 0
                            /\ confirm' = ConfirmOutcome(found)
            [] r = "exc" -> /\ pc' = "rtc"
                            /\ rtc_caller' = "wf_exc"
                            /\ rtc_i' = 0
                            /\ confirm' = "none"
            [] r = "ki"  -> /\ pc' = "interrupted"
                            /\ confirm' = "none"
                            /\ UNCHANGED <<rtc_caller, rtc_i>>
  /\ UNCHANGED <<procv, cfgv, export_stats, navv, enumv, books, loopv,
                 unwind_left, wf_failed, endv, at_collection>>
\* --------------------------------------------------- return to collection
\* the variables one step of _return_to_collection may change
RtcCur ==
  [pc |-> pc, rtc_caller |-> rtc_caller, rtc_i |-> rtc_i,
   export_stats |-> export_stats, outcomes |-> outcomes, item_ok |-> item_ok,
   attempt |-> attempt, idx |-> idx, home_caller |-> home_caller,
   home_i |-> home_i, nav_caller |-> nav_caller, confirm |-> confirm]

\* _return_to_collection returns (lines 778 and 782) to its caller:
\*  "wf_ok"  line 494: export_book_notes returns True (497),
\*           export_book_notes_with_retry returns True (792), the
\*           coordinator counts the success (848);
\*  "wf_exc" line 502: export_book_notes returns False (503) and the retry
\*           loop goes on;
\*  "coord"  line 865: the item loop goes on with the next item.
RtcReturn ==
  CASE rtc_caller = "wf_ok" ->
         [RtcCur EXCEPT !.pc = "pause", !.rtc_i = 0,
                        !.export_stats = RecordSuccess(export_stats),
                        !.outcomes = Append(outcomes, "ok"),
                        !.item_ok = TRUE]
    [] rtc_caller = "wf_exc" ->
         [RtcCur EXCEPT !.pc = "retry", !.rtc_i = 0, !.rtc_caller = "wf_ok",
                        !.attempt = attempt + 1]
    [] OTHER ->
         [RtcCur EXCEPT !.pc = "item_loop", !.rtc_i = 0, !.rtc_caller = "wf_ok",
                        !.idx = idx + 1]

\* variant: the coordinator does not catch the error of an item
ItemErrorPc_Uncaught(e) == Outer(e)

\* export_collection_notes, lines 846-858: what leaves
\* export_book_notes_with_retry is caught by `except Exception` when it is
\* an Exception; a KeyboardInterrupt passes on to line 874
ItemErrorPc(e) == IF e = "exc" THEN "item_exc" ELSE "interrupted"

\* a command or sleep of _return_to_collection raises e ("exc" or "ki"):
\*  "wf_ok"  inside the try of export_book_notes: an Exception enters the
\*           handler of line 499, which calls _return_to_collection again;
\*           a KeyboardInterrupt is not an Exception and reaches line 874;
\*  "wf_exc" inside the handler of line 499: the error leaves
\*           export_book_notes and reaches the handlers of the item loop;
\*  "coord"  inside the bare except of line 866, which catches everything
\*           and calls navigate_to_collection (line 869).
RtcRaise(e) ==
  CASE rtc_caller = "wf_ok" ->
         IF e = "exc"
         THEN [RtcCur EXCEPT !.pc = "rtc", !.rtc_caller = "wf_exc",
                             !.rtc_i = 0, !.confirm = "none"]
         ELSE [RtcCur EXCEPT !.pc = "interrupted", !.rtc_i = 0,
                             !.confirm = "none"]
    [] rtc_caller = "wf_exc" ->
         [RtcCur EXCEPT !.pc = ItemErrorPc(e), !.rtc_i = 0,
                        !.rtc_caller = "wf_ok"]
    [] OTHER ->
         [RtcCur EXCEPT !.pc = "home", !.rtc_i = 0, !.rtc_caller = "wf_ok",
                        !.home_caller = "nav",
                        !.home_i = 0, !.nav_caller = "recover"]

\* _return_to_collection, lines 765-782: one iteration of the loop (sleep,
\* snapshot, indicator check, back press) or the exit after max_backs.
\* In the collection view the snapshot holds lib_book_row_title, so no back
\* is pressed there; elsewhere the indicator may be present or not.
ReturnToCollection ==
  /\ pc = "rtc"
  /\ \E o \in {"found", "pressed", "exc", "ki"} :
       LET n == IF rtc_i < max_backs
                THEN CASE o = "found"   -> RtcReturn
                       [] o = "pressed" -> [RtcCur EXCEPT !.rtc_i = rtc_i + 1]
                       [] OTHER         -> RtcRaise(o)
                ELSE RtcReturn
       IN /\ (rtc_i < max_backs /\ o = "pressed") => ~at_collection
          /\ rtc_i >= max_backs => o = "found"
          /\ last' = Answer(o)
          /\ at_collection' \in IF rtc_i < max_backs /\ o = "pressed"
                                THEN AfterBack(at_collection)
                                ELSE {at_collection}
          /\ pc' = n.pc
          /\ rtc_caller' = n.rtc_caller
          /\ rtc_i' = n.rtc_i
          /\ export_stats' = n.export_stats
          /\ outcomes' = n.outcomes
          /\ item_ok' = n.item_ok
          /\ attempt' = n.attempt
          /\ idx' = n.idx
          /\ home_caller' = n.home_caller
          /\ home_i' = n.home_i
          /\ nav_caller' = n.nav_caller
          /\ confirm' = n.confirm
  /\ UNCHANGED <<procv, cfgv, menu_i, nav_result, libv, enumv, books,
                 nInvoked, unwind_left, wf_failed, wf_ran, endv>>

\* export_collection_notes, lines 858-865: an Exception that left
\* export_book_notes_with_retry is counted as a failure of the item, then
\* recovery is attempted
ItemException ==
  /\ pc = "item_exc"
  /\ export_stats' = RecordFailure(export_stats, books[idx].text)
  /\ outcomes' = Append(outcomes, "error")
  /\ pc' = "rtc"
  /\ rtc_caller' = "coord"
  /\ rtc_i' = 0
  /\ last' = "ok"
  /\ UNCHANGED <<procv, confirm, cfgv, navv, enumv, books, idx, attempt,
                 nInvoked, item_ok, unwind_left, wf_failed, wf_ran, endv,
                 at_collection>>

\* ------------------------------------------------------- outer handlers
\* export_collection_notes, lines 878-881; the frames the error passed
\* through are gone and so are their locals
LogFatal ==
  /\ pc = "fatal"
  /\ summary_logged' = summary_logged + 1
  /\ outcome' = "Exception"
  /\ pc' = "done"
  /\ last' = "ok"
  /\ attempt' = 0 /\ nInvoked' = 0 /\ item_ok' = FALSE
  /\ rtc_caller' = "wf_ok" /\ rtc_i' = 0 /\ unwind_left' = 0
  /\ wf_failed' = FALSE
  /\ UNCHANGED <<procv, confirm, cfgv, export_stats, navv, enumv, books, idx,
                 outcomes, wf_ran, at_collection>>

\* export_collection_notes, lines 874-877; the frames the interrupt passed
\* through are gone and so are their locals
LogInterrupted ==
  /\ pc = "interrupted"
  /\ summary_logged' = summary_logged + 1
  /\ outcome' = "KeyboardInterrupt"
  /\ pc' = "done"
  /\ last' = "ok"
  /\ attempt' = 0 /\ nInvoked' = 0 /\ item_ok' = FALSE
  /\ rtc_caller' = "wf_ok" /\ rtc_i' = 0 /\ unwind_left' = 0
  /\ wf_failed' = FALSE
  /\ UNCHANGED <<procv, confirm, cfgv, export_stats, navv, enumv, books, idx,
                 outcomes, wf_ran, at_collection>>

\* ------------------------------------------------------- specification
Next ==
  \/ StartRun
  \/ LaunchKindle
  \/ NavigateToHome
  \/ NavLibrary
  \/ NavCloseMenu
  \/ NavResolve
  \/ EnumSnapshot
  \/ EnumScroll
  \/ CheckBooks
  \/ NextItem
  \/ FinishLoop
  \/ ExportWithRetry
  \/ Pause
  \/ OpenBookNotesView
  \/ TapExportButton
  \/ SelectExportNotebook
  \/ SelectOneDriveShare
  \/ WfUnwind
  \/ ConfirmOneDriveUpload
  \/ ReturnToCollection
  \/ ItemException
  \/ LogFatal
  \/ LogInterrupted

Spec == Init /\ [][Next]_vars

\* ------------------------------------- enumeration of an unstable list
\* get_visible_books (lines 312-390) on a list that never stabilizes: every
\* snapshot shows one title not shown before (the titles are numbered in the
\* order of their appearance), followed by up to MaxVisible - 1 of the
\* titles shown last
FreshSnapshots ==
  {[i \in 1..n |-> UIElement(Len(all_books) + 2 - i, i)] :
     n \in 1..Min(MaxVisible, Len(all_books) + 1)}

\* the state at the entry of get_all_books_in_collection (line 399) of a run
\* without an item cap (max_books None or 0)
InitUnstable ==
  /\ pc = "enum"
  /\ max_books \in {<< >>, <<0>>}
  /\ retry_attempts \in 0..MaxRetry
  /\ export_stats = ZeroStats
  /\ home_caller = "nav" /\ home_i = 0
  /\ nav_caller = "run" /\ menu_i = 0 /\ nav_result = "tapped"
  /\ library_found = FALSE /\ lib_taps = << >>
  /\ all_books = << >> /\ seen_titles = {} /\ scroll_attempts = 0
  /\ visible_books = << >> /\ shown = {} /\ nSnap = 0
  /\ books = << >>
  /\ idx = 0 /\ attempt = 0 /\ nInvoked = 0 /\ item_ok = FALSE
  /\ outcomes = << >>
  /\ rtc_caller = "wf_ok" /\ rtc_i = 0 /\ unwind_left = 0
  /\ wf_ran = FALSE /\ wf_failed = FALSE
  /\ outcome = "running" /\ summary_logged = 0
  /\ at_collection = TRUE /\ last = "ok"
  /\ confirm = "none"
  /\ NoProc

\* lines 404-424 on the unstable list
EnumSnapshotUnstable == EnumSnapshotFrom(FreshSnapshots)

\* the enumeration and what ends it: the return to line 821 or a raise
NextUnstable ==
  \/ EnumSnapshotUnstable
  \/ EnumScroll
  \/ CheckBooks
  \/ LogFatal
  \/ LogInterrupted

\* the thread of control keeps running while it has a step to take
SpecUnstable ==
  InitUnstable /\ [][NextUnstable]_vars /\ WF_vars(NextUnstable)

\* ------------------------------------------- procedures run on their own
\* The procedures below are called on their own, from the state the
\* constructor leaves, so that what they ask the device and what they do to
\* it can be followed interaction by interaction in `trace`.  What the
\* screen shows is chosen by the environment at every query.

\* the state outside the procedure: an automator with the default
\* configuration (lines 24-43) whose run has not been started
Constructed ==
  /\ pc = "idle"
  /\ max_books = << >>
  /\ retry_attempts = 0
  /\ export_stats = ZeroStats
  /\ home_caller = "launch" /\ home_i = 0
  /\ nav_caller = "run" /\ menu_i = 0 /\ nav_result = "none"
  /\ library_found = FALSE /\ lib_taps = << >>
  /\ all_books = << >> /\ seen_titles = {} /\ scroll_attempts = 0
  /\ visible_books = << >> /\ shown = {} /\ nSnap = 0
  /\ books = << >>
  /\ idx = 0 /\ attempt = 0 /\ nInvoked = 0 /\ item_ok = FALSE
  /\ outcomes = << >>
  /\ rtc_caller = "wf_ok" /\ rtc_i = 0 /\ unwind_left = 0
  /\ wf_ran = FALSE /\ wf_failed = FALSE
  /\ outcome = "running" /\ summary_logged = 0
  /\ at_collection = FALSE /\ last = "ok"
  /\ confirm = "none"

\* the interactions that change what the device shows
StateChanging == {"tap", "swipe", "key", "text"}

\* number of entries of the trace with the given op
Count(tr, op) == Cardinality({i \in 1..Len(tr) : tr[i].op = op})

\* ------------------------------------------------ interaction primitives
Primitives == {"tap", "swipe", "type_text", "press_key"}

\* the procedures that only issue adb commands
DeviceCalls == Primitives \cup {"get_ui_dump"}

\* the adb commands one call issues, in order: tap (line 63), swipe (line
\* 69), type_text (line 79), press_key (line 84), get_ui_dump (lines 89-90)
CommandsOf(p) ==
  CASE p = "tap"         -> <<"shell input tap">>
    [] p = "swipe"       -> <<"shell input swipe">>
    [] p = "type_text"   -> <<"shell input text">>
    [] p = "press_key"   -> <<"shell input keyevent">>
    [] p = "get_ui_dump" -> <<"shell uiautomator dump", "shell cat">>

\* the primitives sleep after their command (lines 64, 73, 80, 85);
\* get_ui_dump does not
Settles(p) == p \in Primitives

\* variant: a failed command is executed once more
RunAdbCommand_Retries(cmd, r) ==
  IF r = "ok" THEN <<[op |-> "adb", cmd |-> cmd, answer |-> r]>>
  ELSE <<[op |-> "adb", cmd |-> cmd, answer |-> r],
         [op |-> "adb", cmd |-> cmd, answer |-> r]>>

\* run_adb_command, lines 45-59: the executions of the command by
\* subprocess.run(check=True) when the device answers r; a
\* CalledProcessError is logged and raised again, anything else passes
\* through
RunAdbCommand(cmd, r) == <<[op |-> "adb", cmd |-> cmd, answer |-> r]>>

\* tap, swipe, type_text, press_key (lines 61-85) and get_ui_dump (lines
\* 87-90): the next command of the call, or the sleep that ends it
DeviceCall ==
  /\ proc \in DeviceCalls
  /\ ret = "none"
  /\ IF proc_pc = "command"
     THEN \E r \in CmdResults :
            /\ trace' = trace \o RunAdbCommand(CommandsOf(proc)[proc_i + 1], r)
            /\ IF r # "ok"
               THEN /\ ret' = "raised"
                    /\ UNCHANGED <<proc_pc, proc_i>>
               ELSE /\ proc_i' = proc_i + 1
                    /\ IF proc_i' < Len(CommandsOf(proc))
                       THEN UNCHANGED <<proc_pc, ret>>
                       ELSE IF Settles(proc)
                            THEN proc_pc' = "sleep" /\ UNCHANGED ret
                            ELSE ret' = "returned" /\ UNCHANGED proc_pc
     ELSE \E r \in {"ok", "ki"} :
            /\ ret' = IF r = "ok" THEN "returned" ELSE "raised"
            /\ UNCHANGED <<proc_pc, proc_i, trace>>
  /\ UNCHANGED <<mainv, proc, proc_loc>>

\* ------------------------------------------------------ home recovery
\* variant: back is pressed whatever the snapshot shows
HomeNeedsBack_Always(indicator) == TRUE

\* _navigate_to_home, lines 159-165: back is pressed when the snapshot
\* holds no home indicator
HomeNeedsBack(indicator) == ~indicator

\* a key press issued by press_key (lines 82-85)
KeyBack == [op |-> "key", key |-> "KEYCODE_BACK"]

\* _navigate_to_home, lines 146-168: one iteration of the loop (snapshot,
\* indicator check, back press) or the exit after max_attempts iterations.
\* `indicator`: the snapshot holds one of the home indicators.
NavigateToHomeProc ==
  /\ proc = "_navigate_to_home"
  /\ ret = "none"
  /\ IF proc_i < max_attempts
     THEN \E indicator \in BOOLEAN :
            /\ trace' = trace \o <<[op |-> "dump", indicator |-> indicator]>>
                              \o IF HomeNeedsBack(indicator)
                                 THEN <<KeyBack>> ELSE << >>
            /\ ret' = IF indicator THEN "returned" ELSE "none"
            /\ proc_i' = proc_i + 1
     ELSE /\ ret' = "returned"
          /\ UNCHANGED <<proc_i, trace>>
  /\ UNCHANGED <<mainv, proc, proc_pc, proc_loc>>

\* ------------------------------------------------ return to collection
\* variant: back is pressed whatever the snapshot shows
RtcNeedsBack_Always(indicator) == TRUE

\* _return_to_collection, lines 776-780: back is pressed when the snapshot
\* does not hold lib_book_row_title
RtcNeedsBack(indicator) == ~indicator

\* _return_to_collection, lines 769-782: one iteration of the loop (sleep,
\* snapshot, indicator check, back press) or the exit after max_backs
\* iterations.  `indicator`: the snapshot holds lib_book_row_title.
ReturnToCollectionProc ==
  /\ proc = "_return_to_collection"
  /\ ret = "none"
  /\ IF proc_i < max_backs
     THEN \E indicator \in BOOLEAN :
            /\ trace' = trace \o <<[op |-> "dump", indicator |-> indicator]>>
                              \o IF RtcNeedsBack(indicator)
                                 THEN <<KeyBack>> ELSE << >>
            /\ ret' = IF indicator THEN "returned" ELSE "none"
            /\ proc_i' = proc_i + 1
     ELSE /\ ret' = "returned"
          /\ UNCHANGED <<proc_i, trace>>
  /\ UNCHANGED <<mainv, proc, proc_pc, proc_loc>>

\* ---------------------------------------------------- screens and queries
MaxElems == 2
MaxCoord == 2

Coords == 1..MaxCoord

\* The elements of a screen, as far as a text search sees them: `has` is the
\* set of the searched texts that the element's text attribute contains (a
\* search is a substring search, so one element may answer several), x its
\* horizontal centre; its vertical centre is its position in the document.
\* A screen of n elements is drawn by drawing `has` and x of each element.
ScreenDraws(n, hs) == [1..n -> hs \X Coords]
Screen(e) == [i \in DOMAIN e |-> [has |-> e[i][1], x |-> e[i][2], y |-> i]]

\* find_elements_by_text, lines 99-114: the elements whose text contains
\* the searched text, in document order, each returned with its centre and
\* with the searched text as its text
FindElementsByText(scr, text) ==
  LET hits == SelectSeq(scr, LAMBDA e : text \in e.has)
  IN [i \in 1..Len(hits) |-> [x |-> hits[i].x, y |-> hits[i].y, text |-> text]]

\* Python's list.sort(key=Key), which is stable: an element comes before
\* another one if its key is smaller, or equal and it stood before
StableSort(s, Key(_)) ==
  LET Before(i) == {j \in 1..Len(s) : \/ Key(s[j]) < Key(s[i])
                                      \/ Key(s[j]) = Key(s[i]) /\ j < i}
  IN [p \in 1..Len(s) |->
        s[CHOOSE i \in 1..Len(s) : Cardinality(Before(i)) = p - 1]]

\* the entries of the trace.  A tap records the entry of the trace whose
\* snapshot its coordinates were read from (0: coordinates written in the
\* code, or handed in by the caller)
WaitEntry(text, found) == [op |-> "wait", text |-> text, found |-> found]
FindEntry(text, els) == [op |-> "find", text |-> text, found |-> els]
TapEntry(x, y, text, snap) ==
  [op |-> "tap", x |-> x, y |-> y, text |-> text, snap |-> snap]

\* the first element of a result (elements[0])
First(els) == els[1]

\* wait_for_text(text) has returned True (lines 116-124) and
\* find_elements_by_text(text) has then returned els: the trace tr with
\* the two queries, followed by the tap of the element Pick chooses when
\* there is one
WaitFindTap(tr, text, els, Pick(_)) ==
  tr \o <<WaitEntry(text, TRUE), FindEntry(text, els)>>
     \o IF els = << >> THEN << >>
        ELSE <<TapEntry(Pick(els).x, Pick(els).y, text, Len(tr) + 2)>>

\* wait_for_text(text) and, when it has returned True,
\* find_elements_by_text(text) and the tap
LookAndTap(tr, text, seen, els, Pick(_)) ==
  IF seen THEN WaitFindTap(tr, text, els, Pick)
  ELSE Append(tr, WaitEntry(text, FALSE))

\* ------------------------------------------------------- format stage
CitationStyles == <<"None", "APA", "Chicago Style", "MLA">>

\* variant: without a prompt the stage always reports failure
WithoutPrompt_Fails(onedrive_seen) == "false"

\* _select_export_notebook, lines 666-672 (the else of the for loop): no
\* citation style was seen; the stage reports True if the share sheet is
\* already there, False otherwise
WithoutPrompt(onedrive_seen) == IF onedrive_seen THEN "true" ELSE "false"

\* _select_export_notebook, lines 646-684.
\*  "styles": one wait_for_text of the loop of lines 662-665;
\*  "share":  the else of that loop, lines 666-672;
\*  "none":   lines 675-684, the wait for "None", the search and the tap.
SelectExportNotebookProc ==
  /\ proc = "_select_export_notebook"
  /\ ret = "none"
  /\ CASE proc_pc = "styles" ->
            \E seen \in BOOLEAN :
              /\ trace' = Append(trace,
                                 WaitEntry(CitationStyles[proc_i + 1], seen))
              /\ proc_i' = proc_i + 1
              /\ proc_pc' = IF seen THEN "none"
                            ELSE IF proc_i' = Len(CitationStyles)
                                 THEN "share" ELSE "styles"
              /\ UNCHANGED ret
       [] proc_pc = "share" ->
            \E seen \in BOOLEAN :
              /\ trace' = Append(trace, WaitEntry("OneDrive", seen))
              /\ ret' = WithoutPrompt(seen)
              /\ UNCHANGED <<proc_pc, proc_i>>
       [] proc_pc = "none" ->
            \E seen \in BOOLEAN, n \in 0..MaxElems :
            \E e \in ScreenDraws(n, {{}, {"None"}}) :
              LET els == FindElementsByText(Screen(e), "None")
              IN /\ trace' = LookAndTap(trace, "None", seen, els, First)
                 /\ ret' = IF seen /\ els # << >> THEN "true" ELSE "false"
                 /\ UNCHANGED <<proc_pc, proc_i>>
  /\ UNCHANGED <<mainv, proc, proc_loc>>

\* --------------------------------------------------- destination stage
\* variant: one more scroll
ShareScrolls_Four(scrollable) == IF scrollable THEN 4 ELSE 0

\* _select_onedrive_share, lines 710-712: the scrolls the stage may issue,
\* range(3) when the snapshot has a scrollable area and none otherwise
ShareScrolls(scrollable) == IF scrollable THEN 3 ELSE 0

SwipeLeft == [op |-> "swipe"]

\* _select_onedrive_share, lines 686-727.
\*  "look":   lines 694-699, the wait for "OneDrive", the search and the tap;
\*  "area":   lines 703-710, the snapshot searched for a scrollable area;
\*  "scroll": one iteration of the loop of lines 712-720; proc_loc holds
\*            the number of iterations the loop makes.
SelectOneDriveShareProc ==
  /\ proc = "_select_onedrive_share"
  /\ ret = "none"
  /\ CASE proc_pc = "look" ->
            \E seen \in BOOLEAN, n \in 0..MaxElems :
            \E e \in ScreenDraws(n, {{}, {"OneDrive"}}) :
              LET els == FindElementsByText(Screen(e), "OneDrive")
              IN /\ trace' = LookAndTap(trace, "OneDrive", seen, els, First)
                 /\ IF seen /\ els # << >>
                    THEN ret' = "true" /\ UNCHANGED proc_pc
                    ELSE proc_pc' = "area" /\ UNCHANGED ret
                 /\ UNCHANGED <<proc_i, proc_loc>>
       [] proc_pc = "area" ->
            \E scrollable \in BOOLEAN :
              /\ trace' = Append(trace, [op |-> "dump",
                                         scrollable |-> scrollable])
              /\ proc_loc' = <<ShareScrolls(scrollable)>>
              /\ IF proc_loc'[1] = 0
                 THEN ret' = "false" /\ UNCHANGED proc_pc
                 ELSE proc_pc' = "scroll" /\ UNCHANGED ret
              /\ UNCHANGED proc_i
       [] proc_pc = "scroll" ->
            \E seen \in BOOLEAN, n \in 0..MaxElems :
            \E e \in ScreenDraws(n, {{}, {"OneDrive"}}) :
              LET els == FindElementsByText(Screen(e), "OneDrive")
              IN /\ trace' = LookAndTap(Append(trace, SwipeLeft), "OneDrive",
                                        seen, els, First)
                 /\ proc_i' = proc_i + 1
                 /\ ret' = IF seen /\ els # << >> THEN "true"
                           ELSE IF proc_i' = proc_loc[1] THEN "false"
                                ELSE "none"
                 /\ UNCHANGED <<proc_pc, proc_loc>>
  /\ UNCHANGED <<mainv, proc>>

\* ------------------------------------------------------- confirm stage
ConfirmOptions == <<"Save", "Upload", "Add", "Done", "OK", "Confirm">>

\* the confirm options the elements of the screens considered may hold
ConfirmTexts == {{}, {"Save"}, {"Done"}}

\* variant: the first element in document order is taken
Rightmost_DocumentOrder(els) == els[1]

\* _confirm_onedrive_upload, lines 750-754: the elements found are sorted
\* by x, largest first (reverse=True keeps the order of equal keys), and the
\* first one is taken
Rightmost(els) == StableSort(els, LAMBDA e : 0 - e.x)[1]

\* _confirm_onedrive_upload, lines 729-763.
\*  "options":  one iteration of the loop of lines 746-755: the wait for
\*              the option, the search and the tap; proc_loc keeps the
\*              screen the tapped element was found on;
\*  "fallback": lines 757-763, the tap at the usual place of the button.
ConfirmOneDriveUploadProc ==
  /\ proc = "_confirm_onedrive_upload"
  /\ ret = "none"
  /\ CASE proc_pc = "options" ->
            \E seen \in BOOLEAN, n \in 0..MaxElems :
            \E e \in ScreenDraws(n, ConfirmTexts) :
              LET scr  == Screen(e)
                  text == ConfirmOptions[proc_i + 1]
                  els  == FindElementsByText(scr, text)
                  hit  == seen /\ els # << >>
              IN /\ trace' = LookAndTap(trace, text, seen, els, Rightmost)
                 /\ proc_i' = proc_i + 1
                 /\ proc_loc' = IF hit THEN scr ELSE proc_loc
                 /\ ret' = IF hit THEN "true" ELSE "none"
                 /\ proc_pc' = IF ~hit /\ proc_i' = Len(ConfirmOptions)
                               THEN "fallback" ELSE "options"
       [] proc_pc = "fallback" ->
            /\ trace' = Append(trace, TapEntry(980, 150, "", 0))
            /\ ret' = "true"
            /\ UNCHANGED <<proc_pc, proc_i, proc_loc>>
  /\ UNCHANGED <<mainv, proc>>

\* ------------------------------------------------ collection resolution
MaxNodes == 2

\* texts are sequences of characters; str.lower() on the characters used
LowerChar(c) == CASE c = "A" -> "a" [] c = "B" -> "b" [] OTHER -> c
Lower(t) == [i \in DOMAIN t |-> LowerChar(t[i])]

\* Python's `p in t` for strings: p is a run of consecutive characters of t
Contains(t, p) ==
  \E i \in 0..(Len(t) - Len(p)) : SubSeq(t, i + 1, i + Len(p)) = p

\* str.strip(): leading and trailing blanks removed
RECURSIVE Strip(_)
Strip(t) ==
  IF t = << >> THEN t
  ELSE IF Head(t) = " " THEN Strip(Tail(t))
  ELSE IF t[Len(t)] = " " THEN Strip(SubSeq(t, 1, Len(t) - 1))
  ELSE t

\* the nodes of the snapshots considered: class and content-desc
NodeKinds ==
  {<<"android.widget.Button", <<"a", "b">>>>,
   <<"android.widget.Button", <<"x", "A", "B">>>>,
   <<"android.widget.Button", <<"a", " ", "b", " ">>>>,
   <<"android.widget.Button", << >>>>,
   <<"android.widget.TextView", <<"a", "b">>>>}

\* a snapshot of n nodes is drawn by drawing the kind and the height of
\* each node (0: the node has no bounds that parse_bounds accepts)
NodeDraws(n) == [1..n -> NodeKinds \X (0..MaxCoord)]

\* the nodes drawn: class, content-desc and bounds (<< >>, or the centre,
\* whose x is the position of the node in the document)
Nodes(e) ==
  [i \in DOMAIN e |->
     [class |-> e[i][1][1], desc |-> e[i][1][2],
      bounds |-> IF e[i][2] = 0 THEN << >> ELSE <<i, e[i][2]>>]]

CollectionNames == {<<"A", "b">>, <<"a", " ">>}

\* navigate_to_collection, lines 261-282: the Button nodes whose stripped
\* content-desc holds the collection name, both in lower case, and whose
\* bounds parse, in document order
CollectionNodes(nodes, target) ==
  SelectSeq(nodes,
            LAMBDA n : /\ n.class = "android.widget.Button"
                       /\ Contains(Lower(Strip(n.desc)), Lower(target))
                       /\ n.bounds # << >>)

\* variant: the first candidate in document order is taken
Topmost_DocumentOrder(cands) == cands[1]

\* navigate_to_collection, lines 293-294: the candidates are sorted by
\* center_y and the first one is taken
Topmost(cands) == StableSort(cands, LAMBDA n : n.bounds[2])[1]

\* navigate_to_collection, lines 261-310, on the snapshot of line 211 held
\* in proc_loc: the search of the collection button and the tap
ResolveCollectionProc ==
  /\ proc = "navigate_to_collection"
  /\ ret = "none"
  /\ LET cands == CollectionNodes(proc_loc.nodes, proc_loc.target)
     IN IF cands = << >>
        THEN /\ trace' = <<[op |-> "dump"]>>
             /\ ret' = "false"
        ELSE /\ trace' = <<[op |-> "dump"],
                           TapEntry(Topmost(cands).bounds[1],
                                    Topmost(cands).bounds[2],
                                    Topmost(cands).desc, 1)>>
             /\ ret' = "true"
  /\ UNCHANGED <<mainv, proc, proc_pc, proc_i, proc_loc>>

\* -------------------------------------------------- annotations stage
MaxButtons == 3

\* _open_book_notes_view, lines 524-529: the patterns tried in turn
NotebookPatterns ==
  <<"content-desc notebook", "content-desc annotation",
    "resource-id notebook", "resource-id annotation">>

\* what the one snapshot of line 518 gives: the patterns that match it and
\* the number of clickable elements in the upper right corner
NotebookDumps ==
  [matched : SUBSET (1..Len(NotebookPatterns)), buttons : 0..MaxButtons]

\* a variant that is content with two buttons
HeuristicApplies_Two(buttons) == buttons >= 2

\* _open_book_notes_view, lines 564-567: the third button from the right is
\* tapped when the corner has at least three
HeuristicApplies(buttons) == buttons >= 3

\* _open_book_notes_view, lines 505-575.
\*  "open":      lines 509-518, the tap on the book, the tap that shows the
\*               toolbar and the snapshot, kept in proc_loc;
\*  "patterns":  one iteration of the loop of lines 531-544: if the pattern
\*               matches the snapshot, the tap at the centre of the match
\*               (written as x = number of the pattern) and the wait for
\*               "Annotations";
\*  "heuristic": lines 546-572, on the same snapshot.
OpenBookNotesViewProc ==
  /\ proc = "_open_book_notes_view"
  /\ ret = "none"
  /\ CASE proc_pc = "open" ->
            \E d \in NotebookDumps :
              /\ trace' = <<TapEntry(1, 1, "book", 0),
                            TapEntry(540, 200, "toolbar", 0),
                            [op |-> "dump"]>>
              /\ proc_loc' = <<[matched |-> d.matched,
                                 buttons |-> d.buttons, at |-> 3]>>
              /\ proc_pc' = "patterns"
              /\ UNCHANGED <<proc_i, ret>>
       [] proc_pc = "patterns" ->
            /\ proc_i' = proc_i + 1
            /\ IF proc_i' \in proc_loc[1].matched
               THEN \E seen \in BOOLEAN :
                      /\ trace' = trace \o
                           <<TapEntry(proc_i', 0, NotebookPatterns[proc_i'],
                                      proc_loc[1].at),
                             WaitEntry("Annotations", seen)>>
                      /\ ret' = IF seen THEN "true" ELSE "none"
               ELSE UNCHANGED <<trace, ret>>
            /\ proc_pc' = IF ret' = "none" /\ proc_i' = Len(NotebookPatterns)
                          THEN "heuristic" ELSE "patterns"
            /\ UNCHANGED proc_loc
       [] proc_pc = "heuristic" ->
            /\ IF HeuristicApplies(proc_loc[1].buttons)
               THEN \E seen \in BOOLEAN :
                      /\ trace' = trace \o
                           <<TapEntry(3, 0, "third from right",
                                      proc_loc[1].at),
                             WaitEntry("Annotations", seen)>>
                      /\ ret' = IF seen THEN "true" ELSE "false"
               ELSE /\ ret' = "false"
                    /\ UNCHANGED trace
            /\ UNCHANGED <<proc_pc, proc_i, proc_loc>>
  /\ UNCHANGED <<mainv, proc>>


\* ------------------------------------------------------- text polling
\* the timeouts wait_for_text is called with (lines 542-747: 1.0, 1.5, 2.0,
\* 3.0, 5.0 seconds) and its default (line 116: 10.0), in half seconds
WaitTimeouts == {2, 3, 4, 6, 10, 20}

\* the time one unsuccessful iteration takes, in half seconds: the
\* time.sleep(1) of line 123 lasts at least one second, the snapshot of the
\* search some more
IterationTimes == {2, 3}

\* variant: the clock does not advance during an iteration
Elapse_Frozen(elapsed, d) == elapsed

\* wait_for_text, lines 119-123: time.time() - start_time at the next test
\* of the loop condition, after an iteration that took d
Elapse(elapsed, d) == elapsed + d

\* wait_for_text, lines 116-124: one test of the loop condition (119) with
\* the iteration it admits (search 120, return True 121-122, sleep 123), or
\* the return False of line 124.  proc_i is time.time() - start_time at the
\* test, proc_loc[1] the timeout.  The search may raise.
WaitForTextProc ==
  /\ proc = "wait_for_text"
  /\ ret = "none"
  /\ IF proc_i < proc_loc[1]
     THEN \E answer \in {"found", "absent", "raised"}, d \in IterationTimes :
            /\ trace' = trace \o <<[op |-> "find", answer |-> answer]>>
            /\ ret' = CASE answer = "found"  -> "true"
                        [] answer = "raised" -> "raised"
                        [] answer = "absent" -> "none"
            /\ proc_i' = IF answer = "absent"
                         THEN Elapse(proc_i, d) ELSE proc_i
     ELSE /\ ret' = "false"
          /\ UNCHANGED <<proc_i, trace>>
  /\ UNCHANGED <<mainv, proc, proc_pc, proc_loc>>

\* ------------------------------------------------- the workflow of an item
\* export_book_notes, lines 453-485: the stages in the order of their calls
StageCalls ==
  <<"_open_book_notes_view", "_tap_export_button", "_select_export_notebook",
    "_select_onedrive_share", "_confirm_onedrive_upload">>

\* a stage has been called and has returned True or False ("true",
\* "false") or has raised ("exc", "ki")
StageEntry(k, result) == [op |-> "stage", k |-> k, result |-> result]

\* a call of _return_to_collection, which looks for the collection view
RtcEntry == [op |-> "rtc"]

\* a command or sleep of export_book_notes itself was cut short by an error
RaiseEntry(e) == [op |-> "raise", error |-> e]

\* export_book_notes, lines 447-503, with the stages and
\* _return_to_collection as single calls.
\*  "stages":  the call of stage proc_i + 1 and the test of its result
\*             (453, 458, 465, 474, 485); a failed confirm stage is only
\*             logged (486-487);
\*  "backs":   one press_key("KEYCODE_BACK") with its sleep of the block of
\*             the failed stage (460-461, 467-470, 476-481); proc_loc holds
\*             the number of presses of the block;
\*  "return":  the sleep of line 491 and the call of line 494, then
\*             return True;
\*  "handler": lines 499-503, entered by an Exception raised inside the try:
\*             the call of line 502, then return False.
\* A KeyboardInterrupt is not caught here.
ExportBookNotesProc ==
  /\ proc = "export_book_notes"
  /\ ret = "none"
  /\ CASE proc_pc = "stages" ->
            \E r \in {"true", "false", "exc", "ki"} :
              LET k == proc_i + 1
              IN /\ trace' = Append(trace, StageEntry(k, r))
                 /\ (CASE r = "exc" ->
                           /\ proc_pc' = "handler"
                           /\ UNCHANGED <<proc_i, proc_loc, ret>>
                      [] r = "ki" ->
                           /\ ret' = "raised"
                           /\ UNCHANGED <<proc_pc, proc_i, proc_loc>>
                      [] r \in {"true", "false"} /\ k = Len(StageCalls) ->
                           /\ proc_pc' = "return"
                           /\ UNCHANGED <<proc_i, proc_loc, ret>>
                      [] r = "true" /\ k < Len(StageCalls) ->
                           /\ proc_i' = k
                           /\ UNCHANGED <<proc_pc, proc_loc, ret>>
                      [] r = "false" /\ k < Len(StageCalls) ->
                           IF BacksOnFailure(k) = 0
                           THEN /\ ret' = "false"
                                /\ UNCHANGED <<proc_pc, proc_i, proc_loc>>
                           ELSE /\ proc_pc' = "backs"
                                /\ proc_i' = 0
                                /\ proc_loc' = <<BacksOnFailure(k)>>
                                /\ UNCHANGED ret)
       [] proc_pc = "backs" ->
            \E r \in CmdResults :
              /\ (CASE r = "ok" ->
                        /\ trace' = Append(trace, KeyBack)
                        /\ proc_i' = proc_i + 1
                        /\ ret' = IF proc_i' = proc_loc[1]
                                  THEN "false" ELSE "none"
                        /\ UNCHANGED proc_pc
                   [] r = "exc" ->
                        /\ trace' = Append(trace, RaiseEntry(r))
                        /\ proc_pc' = "handler"
                        /\ UNCHANGED <<proc_i, ret>>
                   [] r = "ki" ->
                        /\ trace' = Append(trace, RaiseEntry(r))
                        /\ ret' = "raised"
                        /\ UNCHANGED <<proc_pc, proc_i>>)
              /\ UNCHANGED proc_loc
       [] proc_pc = "return" ->
            \E r \in CmdResults :
              /\ (CASE r = "ok" ->
                        /\ trace' = Append(trace, RtcEntry)
                        /\ ret' = "true"
                        /\ UNCHANGED proc_pc
                   [] r = "exc" ->
                        /\ trace' = trace \o <<RtcEntry, RaiseEntry(r)>>
                        /\ proc_pc' = "handler"
                        /\ UNCHANGED ret
                   [] r = "ki" ->
                        /\ trace' = trace \o <<RtcEntry, RaiseEntry(r)>>
                        /\ ret' = "raised"
                        /\ UNCHANGED proc_pc)
              /\ UNCHANGED <<proc_i, proc_loc>>
       [] proc_pc = "handler" ->
            \E r \in CmdResults :
              /\ trace' = trace \o
                   IF r = "ok" THEN <<RtcEntry>>
                   ELSE <<RtcEntry, RaiseEntry(r)>>
              /\ ret' = IF r = "ok" THEN "false" ELSE "raised"
              /\ UNCHANGED <<proc_pc, proc_i, proc_loc>>
  /\ UNCHANGED <<mainv, proc>>

\* ------------------------------------- enumeration and the taps on items
\* the snapshots of a list that shows every item once
ListPages ==
  {s \in Snapshots : \A i, j \in 1..Len(s) : s[i].text = s[j].text => i = j}

\* scroll_down_in_collection, lines 435-445: the swipe that scrolls the list
ScrollDown == [op |-> "swipe", by |-> "scroll_down_in_collection"]

\* variant: the item is tapped where the list begins
BookTap_TopOfList(book, snap) == TapEntry(0, 1, book.text, snap)

\* _open_book_notes_view, line 509: the tap at the coordinates held by the
\* element (the horizontal coordinate is not modelled: 0)
BookTap(book, snap) == TapEntry(0, book.y, book.text, snap)

\* export_collection_notes from line 821 on, in the collection view, with
\* no item cap.
\*  "enumerate": get_all_books_in_collection, lines 404-433, one iteration:
\*               the snapshot, the bookkeeping of its elements, and the
\*               scroll if it held a new title.  proc_loc holds the
\*               snapshots taken so far (pages), all_books (all), for each
\*               of its elements the place in the trace of the snapshot it
\*               was taken from (at), and seen_titles (seen);
\*  "items":     lines 839-856: a call of export_book_notes for item
\*               proc_i, which taps the element (509) and goes through the
\*               workflow, with or without scrolling the share sheet
\*               (712-713).
ExportCollectionNotesProc ==
  /\ proc = "export_collection_notes"
  /\ ret = "none"
  /\ CASE proc_pc = "enumerate" ->
            IF LoopContinues(proc_i)
            THEN \E vis \in ListPages :
                   LET acc == AddBooks(vis, [all |-> proc_loc.all,
                                             seen |-> proc_loc.seen,
                                             new |-> FALSE, hit |-> FALSE],
                                       max_books)
                       here == Len(trace) + 1
                   IN /\ trace' = trace \o <<[op |-> "dump"]>>
                                        \o IF acc.new THEN <<ScrollDown>>
                                           ELSE << >>
                      /\ proc_loc' =
                           [pages |-> Append(proc_loc.pages, vis),
                            all |-> acc.all,
                            at |-> [i \in 1..Len(acc.all) |->
                                      IF i <= Len(proc_loc.all)
                                      THEN proc_loc.at[i] ELSE here],
                            seen |-> acc.seen]
                      /\ IF acc.new
                         THEN /\ proc_i' = proc_i + 1
                              /\ UNCHANGED <<proc_pc, ret>>
                         ELSE IF AfterEnumerate(acc.all) = "done"
                              THEN /\ ret' = "returned"
                                   /\ UNCHANGED <<proc_pc, proc_i>>
                              ELSE /\ proc_pc' = "items"
                                   /\ proc_i' = 1
                                   /\ UNCHANGED ret
            ELSE /\ proc_pc' = "items"
                 /\ proc_i' = 1
                 /\ UNCHANGED <<proc_loc, trace, ret>>
       [] proc_pc = "items" ->
            \E scrolled \in BOOLEAN :
              /\ trace' = trace
                   \o <<BookTap(proc_loc.all[proc_i], proc_loc.at[proc_i])>>
                   \o IF scrolled THEN <<SwipeLeft>> ELSE << >>
              /\ proc_i' = proc_i + 1
              /\ ret' = IF proc_i' > Len(proc_loc.all)
                        THEN "returned" ELSE "none"
              /\ UNCHANGED <<proc_pc, proc_loc>>
  /\ UNCHANGED <<mainv, proc>>
\* ------------------------------------- specification of the procedures
Procedures ==
  DeviceCalls \cup
  {"_navigate_to_home", "_return_to_collection", "_select_export_notebook",
   "_select_onedrive_share", "_confirm_onedrive_upload",
   "navigate_to_collection", "_open_book_notes_view", "wait_for_text",
   "export_book_notes"}

\* where a call of the procedure starts
StartPc(p) ==
  CASE p \in DeviceCalls -> "command"
    [] p \in {"_navigate_to_home", "_return_to_collection"} -> "loop"
    [] p = "_select_export_notebook" -> "styles"
    [] p = "_select_onedrive_share" -> "look"
    [] p = "_confirm_onedrive_upload" -> "options"
    [] p = "navigate_to_collection" -> "resolve"
    [] p = "_open_book_notes_view" -> "open"
    [] p = "wait_for_text" -> "loop"
    [] p = "export_book_notes" -> "stages"

\* one procedure is called; navigate_to_collection is entered at line 261
\* with the snapshot it has taken and with self.collection_name,
\* wait_for_text with its timeout
InitProcs ==
  /\ Constructed
  /\ proc \in Procedures
  /\ proc_pc = StartPc(proc)
  /\ proc_i = 0
  /\ IF proc = "navigate_to_collection"
     THEN \E n \in 0..MaxNodes, target \in CollectionNames :
          \E e \in NodeDraws(n) :
            proc_loc = [nodes |-> Nodes(e), target |-> target]
     ELSE IF proc = "wait_for_text"
          THEN \E timeout \in WaitTimeouts : proc_loc = <<timeout>>
          ELSE proc_loc = << >>
  /\ trace = << >>
  /\ ret = "none"

NextProcs ==
  \/ DeviceCall
  \/ NavigateToHomeProc
  \/ ReturnToCollectionProc
  \/ SelectExportNotebookProc
  \/ SelectOneDriveShareProc
  \/ ConfirmOneDriveUploadProc
  \/ ResolveCollectionProc
  \/ OpenBookNotesViewProc
  \/ WaitForTextProc
  \/ ExportBookNotesProc

\* the thread of control keeps running while it has a step to take
SpecProcs == InitProcs /\ [][NextProcs]_vars /\ WF_vars(NextProcs)


\* ------------------------- specification of the taps on enumerated items
\* export_collection_notes is entered at line 821 with nothing enumerated
InitItems ==
  /\ Constructed
  /\ proc = "export_collection_notes"
  /\ proc_pc = "enumerate"
  /\ proc_i = 0
  /\ proc_loc = [pages |-> << >>, all |-> << >>, at |-> << >>, seen |-> {}]
  /\ trace = << >>
  /\ ret = "none"

NextItems == ExportCollectionNotesProc

SpecItems == InitItems /\ [][NextItems]_vars

\* ------------------------------- the run together with its procedures
\* export_collection_notes is started on an automator of any
\* configuration, or one of the procedures it calls is run on its own
InitAll == Init \/ InitProcs

\* a step of the run, or a step of the procedure that was called
NextAll ==
  \/ proc = "none" /\ Next
  \/ proc # "none" /\ NextProcs

SpecAll == InitAll /\ [][NextAll]_vars

\* --------------------------------------- two runs on the same automator
\* The statistics are Python dicts: objects that are reached by reference.
\* proc_loc.heap holds the stats objects created so far, proc_loc.self the
\* one self.export_stats refers to, proc_loc.first the one the first call
\* has returned (0 before that) and proc_loc.first_value what it held then.

\* variant: the statistics are cleared in place
ResetStats_InPlace(loc) == [loc EXCEPT !.heap[loc.self] = ZeroStats]

\* export_collection_notes, lines 805-810: self.export_stats is bound to a
\* new dict with a new list
ResetStats(loc) ==
  [loc EXCEPT !.heap = Append(@, ZeroStats), !.self = Len(loc.heap) + 1]

\* an item has been processed in call number run
ItemEntry(run, title, ok) ==
  [op |-> "item", run |-> run, title |-> title, ok |-> ok]

\* export_collection_notes called twice on the same automator, with the
\* device work left out.
\*  "reset": lines 805-810 of call number proc_i + 1;
\*  "loop":  either an item is counted through self.export_stats (lines
\*           844, 848, 851-852), or the call returns self.export_stats
\*           (lines 818, 831, 883): the first call's caller keeps the
\*           reference and calls again, the second call ends the history.
TwoRunsProc ==
  /\ proc = "export_collection_notes"
  /\ ret = "none"
  /\ CASE proc_pc = "reset" ->
            /\ proc_loc' = ResetStats(proc_loc)
            /\ proc_i' = proc_i + 1
            /\ proc_pc' = "loop"
            /\ UNCHANGED <<trace, ret>>
       [] proc_pc = "loop" ->
            \/ \E ok \in BOOLEAN :
                 LET title == Cardinality({j \in 1..Len(trace) :
                                             trace[j].run = proc_i}) + 1
                     st == RecordAttempt(proc_loc.heap[proc_loc.self])
                 IN /\ title \in Titles
                    /\ trace' = Append(trace, ItemEntry(proc_i, title, ok))
                    /\ proc_loc' =
                         [proc_loc EXCEPT !.heap[proc_loc.self] =
                            IF ok THEN RecordSuccess(st)
                            ELSE RecordFailure(st, title)]
                    /\ UNCHANGED <<proc_pc, proc_i, ret>>
            \/ /\ IF proc_i = 1
                  THEN /\ proc_loc' =
                            [proc_loc EXCEPT
                               !.first = proc_loc.self,
                               !.first_value = proc_loc.heap[proc_loc.self]]
                       /\ proc_pc' = "reset"
                       /\ UNCHANGED ret
                  ELSE /\ ret' = "returned"
                       /\ UNCHANGED <<proc_pc, proc_loc>>
               /\ UNCHANGED <<proc_i, trace>>
  /\ UNCHANGED <<mainv, proc>>

\* the automator has been constructed (lines 38-43 create the first stats
\* object) and export_collection_notes is called
InitRuns ==
  /\ Constructed
  /\ proc = "export_collection_notes"
  /\ proc_pc = "reset"
  /\ proc_i = 0
  /\ proc_loc = [heap |-> <<ZeroStats>>, self |-> 1, first |-> 0,
                 first_value |-> ZeroStats]
  /\ trace = << >>
  /\ ret = "none"

NextRuns == TwoRunsProc

SpecRuns == InitRuns /\ [][NextRuns]_vars

\* ------------------------------- KindleHighlightExporter: home recovery
\* return_to_home and its two callers. proc_loc.home is what return_to_home
\* has returned ("none" before that), proc_i the number of iterations of its
\* loop that have started, proc_loc.scrolls the scrolls of the collection
\* search of navigate_to_collection.

\* return_to_home, line 234: max_attempts
return_to_home_max_attempts == 3

\* navigate_to_collection, line 513
max_scrolls == 5

HomeCallers == {"return_to_home", "start_kindle_app",
                "exporter_navigate_to_collection"}

\* variant: no assumption is made, an unconfirmed home screen is a failure
AssumeHome_Never(in_book) == "false"

\* return_to_home, lines 266-271: after the attempts, home is assumed
\* unless a book view indicator is present
AssumeHome(in_book) == IF in_book THEN "false" ELSE "true"

InBookEntry(answer, final) ==
  [op |-> "is_in_book_view", answer |-> answer, final |-> final]
HomeEntry(answer) == [op |-> "home_check", answer |-> answer]
LeaveBookEntry(clicked, pressed) ==
  [op |-> "leave_book", clicked |-> clicked, pressed |-> pressed]
PressBackEntry == [op |-> "press", key |-> "back"]
StageFoundEntry(stage, found) ==
  [op |-> "stage", stage |-> stage, found |-> found]

\* One step of return_to_home, of start_kindle_app or of
\* navigate_to_collection of the exporter.
\*  "launch":      start_kindle_app, lines 277-284: the lock checks and the
\*                 start of the application;
\*  "attempt":     return_to_home, lines 235-241: the next iteration with
\*                 its book view check and the way out of the book, or,
\*                 after the last iteration, lines 266-271;
\*  "home_check":  lines 245-264: the home texts and indicators, and the
\*                 back press when none is there;
\*  "result":      the caller's test of the value, lines 287-288, 381-382;
\*  "library", "collections", "collection": the later stages of
\*                 navigate_to_collection with their raises, lines 427, 507
\*                 and 550; the collection is searched for with at most
\*                 max_scrolls scrolls (lines 513-543).
HomeProc ==
  /\ proc \in HomeCallers
  /\ ret = "none"
  /\ CASE proc_pc = "launch" ->
            (\E a \in {"ok", "locked", "raised"} :
               /\ trace' = Append(trace, [op |-> "app_start", answer |-> a])
               /\ CASE a = "ok" -> proc_pc' = "attempt" /\ UNCHANGED ret
                    [] a = "locked" ->
                         ret' = "DeviceConnectionError" /\ UNCHANGED proc_pc
                    [] a = "raised" -> ret' = "raised" /\ UNCHANGED proc_pc
               /\ UNCHANGED <<proc_i, proc_loc>>)
       [] proc_pc = "attempt" ->
            (IF proc_i < return_to_home_max_attempts
             THEN /\ proc_i' = proc_i + 1
                  /\ \/ /\ trace' = Append(trace, InBookEntry(FALSE, FALSE))
                        /\ proc_pc' = "home_check"
                        /\ UNCHANGED <<ret, proc_loc>>
                     \/ /\ trace' = Append(trace, InBookEntry("raised", FALSE))
                        /\ ret' = "raised"
                        /\ UNCHANGED <<proc_pc, proc_loc>>
                     \/ \E clicked, pressed \in BOOLEAN :
                          /\ clicked => ~pressed
                          /\ trace' = trace \o
                               <<InBookEntry(TRUE, FALSE),
                                 LeaveBookEntry(clicked, pressed)>>
                          /\ proc_pc' = IF clicked \/ pressed
                                        THEN "home_check" ELSE "attempt"
                          /\ UNCHANGED <<ret, proc_loc>>
             ELSE \E in_book \in BOOLEAN :
                    /\ trace' = Append(trace, InBookEntry(in_book, TRUE))
                    /\ proc_loc' = [proc_loc EXCEPT !.home = AssumeHome(in_book)]
                    /\ proc_pc' = "result"
                    /\ UNCHANGED <<proc_i, ret>>)
       [] proc_pc = "home_check" ->
            (\E a \in {"text", "indicator", "absent", "raised"} :
               /\ CASE a \in {"text", "indicator"} ->
                         /\ trace' = Append(trace, HomeEntry(a))
                         /\ proc_loc' = [proc_loc EXCEPT !.home = "true"]
                         /\ proc_pc' = "result"
                         /\ UNCHANGED ret
                    [] a = "absent" ->
                         /\ trace' = trace \o <<HomeEntry(a), PressBackEntry>>
                         /\ proc_pc' = "attempt"
                         /\ UNCHANGED <<ret, proc_loc>>
                    [] a = "raised" ->
                         /\ trace' = Append(trace, HomeEntry(a))
                         /\ ret' = "raised"
                         /\ UNCHANGED <<proc_pc, proc_loc>>
               /\ UNCHANGED proc_i)
       [] proc_pc = "result" ->
            (/\ CASE proc = "return_to_home" ->
                       ret' = proc_loc.home /\ UNCHANGED proc_pc
                  [] proc = "start_kindle_app" ->
                       /\ ret' = IF proc_loc.home = "false"
                                 THEN "KindleUIError" ELSE "returned"
                       /\ UNCHANGED proc_pc
                  [] proc = "exporter_navigate_to_collection" ->
                       IF proc_loc.home = "false"
                       THEN ret' = "KindleUIError" /\ UNCHANGED proc_pc
                       ELSE proc_pc' = "library" /\ UNCHANGED ret
             /\ UNCHANGED <<proc_i, proc_loc, trace>>)
       [] proc_pc \in {"library", "collections"} ->
            (\E found \in BOOLEAN :
               /\ trace' = Append(trace, StageFoundEntry(proc_pc, found))
               /\ IF found
                  THEN /\ proc_pc' = IF proc_pc = "library"
                                     THEN "collections" ELSE "collection"
                       /\ UNCHANGED ret
                  ELSE ret' = "KindleUIError" /\ UNCHANGED proc_pc
               /\ UNCHANGED <<proc_i, proc_loc>>)
       [] proc_pc = "collection" ->
            (IF proc_loc.scrolls < max_scrolls
             THEN \E found \in BOOLEAN :
                    /\ trace' = Append(trace, StageFoundEntry(proc_pc, found))
                    /\ IF found
                       THEN ret' = "returned" /\ UNCHANGED proc_loc
                       ELSE /\ proc_loc' =
                                 [proc_loc EXCEPT !.scrolls = @ + 1]
                            /\ UNCHANGED ret
                    /\ UNCHANGED <<proc_pc, proc_i>>
             ELSE /\ ret' = "KindleUIError"
                  /\ UNCHANGED <<proc_pc, proc_i, proc_loc, trace>>)
  /\ UNCHANGED <<mainv, proc>>

\* one of the three functions is called on an exporter
InitHome ==
  /\ Constructed
  /\ proc \in HomeCallers
  /\ proc_pc = IF proc = "start_kindle_app" THEN "launch" ELSE "attempt"
  /\ proc_i = 0
  /\ proc_loc = [home |-> "none", scrolls |-> 0]
  /\ trace = << >>
  /\ ret = "none"

NextHome == HomeProc

SpecHome == InitHome /\ [][NextHome]_vars

\* ------------------------------------------- NoteHammer: duplicate notes
\* A Note is a frozen dataclass compared and hashed by its fields
\* (note.py, lines 9-27); two of the fields are enough to have notes that
\* differ and notes that are equal.
Notes == [title : 1..2, citation : 1..2]

NoteLists == UNION {[1..n -> Notes] : n \in 0..MaxNotes}

\* note_freq[note], lines 119-121: how many notes of the list equal note
NoteFreq(notes, note) ==
  Cardinality({i \in 1..Len(notes) : notes[i] = note})

\* note_freq.items(), line 125: the keys of the dict, in the order in
\* which they were first inserted
RECURSIVE NoteKeys(_)
NoteKeys(notes) ==
  IF notes = << >> THEN << >>
  ELSE LET front == SubSeq(notes, 1, Len(notes) - 1)
           note  == notes[Len(notes)]
       IN IF \E i \in 1..Len(front) : front[i] = note
          THEN NoteKeys(front)
          ELSE Append(NoteKeys(front), note)

\* remove_duplicate_notes, lines 123-132: the notes counted once
remove_duplicate_notes(notes) ==
  SelectSeq(NoteKeys(notes), LAMBDA n : NoteFreq(notes, n) = 1)

\* process_kindle_notes, line 46: the extracted notes are passed through
\* remove_duplicate_notes; proc_loc.notes is the list before the call and
\* proc_loc.unique the list it returns
RemoveDuplicateNotesProc ==
  /\ proc = "remove_duplicate_notes"
  /\ ret = "none"
  /\ proc_loc' = [proc_loc EXCEPT
                    !.unique = remove_duplicate_notes(proc_loc.notes)]
  /\ ret' = "returned"
  /\ UNCHANGED <<mainv, proc, proc_pc, proc_i, trace>>

\* extract_notes has returned some list of notes (line 45)
InitNotes ==
  /\ Constructed
  /\ proc = "remove_duplicate_notes"
  /\ proc_pc = "call"
  /\ proc_i = 0
  /\ \E notes \in NoteLists : proc_loc = [notes |-> notes, unique |-> << >>]
  /\ trace = << >>
  /\ ret = "none"

NextNotes == RemoveDuplicateNotesProc

SpecNotes == InitNotes /\ [][NextNotes]_vars
\* ================================================================ claims
Balanced(st) == st.attempted = st.successful + st.failed

\* C1: at every point where an item's outcome has just been recorded, and
\* in the statistics of every run that has ended (returned, fatal error or
\* interruption), attempted = successful + failed.
C1_AttemptedBalanced ==
  pc \in {"pause", "done"} => Balanced(export_stats)

\* C2: the number of titles in failed_books equals the failed counter in
\* every state of a run, whichever path recorded the failures.
C2_FailedBooksMatchCounter ==
  Len(export_stats.failed_books) = export_stats.failed

\* both recording paths were taken in one run: one item failed all its
\* retries, another one was recorded by the per-item exception handler
C2_Witness ==
  /\ \E i \in 1..Len(outcomes) : outcomes[i] = "fail"
  /\ \E i \in 1..Len(outcomes) : outcomes[i] = "error"

\* titles of the first n items whose workflow did not succeed, in
\* enumeration order
RECURSIVE FailingTitles(_)
FailingTitles(n) ==
  IF n = 0 THEN << >>
  ELSE IF outcomes[n] # "ok"
       THEN Append(FailingTitles(n - 1), books[n].text)
       ELSE FailingTitles(n - 1)

LoopCompleted == pc = "done" /\ outcome = "returned" /\ summary_logged = 1

\* C3: when the item loop has run to its end, attempted is the number of
\* enumerated items, successful the number of items whose workflow
\* succeeded, failed the number of the others, and failed_books the titles
\* of the others in enumeration order.
C3_StatsOfCompletedRun ==
  LoopCompleted =>
    /\ Len(outcomes) = Len(books)
    /\ export_stats.attempted = Len(books)
    /\ export_stats.successful =
         Cardinality({i \in 1..Len(books) : outcomes[i] = "ok"})
    /\ export_stats.failed =
         Cardinality({i \in 1..Len(books) : outcomes[i] # "ok"})
    /\ export_stats.failed_books = FailingTitles(Len(books))

\* the scenario of the specification: the first item succeeds, the second
\* fails all its retries
C3_Witness ==
  /\ LoopCompleted
  /\ outcomes = <<"ok", "fail">>
  /\ export_stats = [attempted |-> 2, successful |-> 1, failed |-> 1,
                     failed_books |-> <<books[2].text>>]

NoDupTitles(s) ==
  \A i, j \in 1..Len(s) : s[i].text = s[j].text => i = j

TitleSet(s) == {s[i].text : i \in 1..Len(s)}

\* the elements of snapshot vis that show a title for the first time: the
\* title is not in old and not earlier in vis
RECURSIVE FirstShown(_, _, _)
FirstShown(vis, old, n) ==
  IF n = 0 THEN << >>
  ELSE IF /\ vis[n].text \notin old
          /\ \A j \in 1..(n - 1) : vis[j].text # vis[n].text
       THEN Append(FirstShown(vis, old, n - 1), vis[n])
       ELSE FirstShown(vis, old, n - 1)

\* a step of the enumeration that took a snapshot and processed it
SnapshotStep ==
  /\ pc = "enum"
  /\ scroll_attempts < max_scroll_attempts
  /\ pc' \in {"enum_scroll", "check_books"}

\* C4: the accumulated list and the returned list never hold a title
\* twice; without a cap every snapshot appends exactly the elements that
\* show a title for the first time, in snapshot order, so the result is the
\* distinct titles shown, in order of first discovery.
C4_EnumerationDeduplicates ==
  /\ [](NoDupTitles(all_books) /\ NoDupTitles(books))
  /\ [](pc = "check_books" /\ ~Truthy(max_books) => TitleSet(books) = shown)
  /\ [][SnapshotStep /\ ~Truthy(max_books) =>
          all_books' = all_books \o
             FirstShown(visible_books', TitleSet(all_books),
                        Len(visible_books'))]_vars

\* scroll-back: after one scroll the page shows again the two titles that
\* are already in the list, and the enumeration returns 2 items, not 4
C4_Witness ==
  /\ pc = "check_books"
  /\ ~Truthy(max_books)
  /\ scroll_attempts = 1
  /\ Len(visible_books) = 2
  /\ Cardinality(TitleSet(visible_books)) = 2
  /\ Len(books) = 2

\* C5: with max_books = m >= 1 the accumulated list never exceeds m items,
\* a scroll gesture is issued only while fewer than m items are held, and
\* when the snapshots have shown at least m distinct titles the
\* enumeration returns exactly m items.
C5_MaxBooksBound ==
  /\ [](Truthy(max_books) =>
          /\ Len(all_books) <= max_books[1]
          /\ Len(books) <= max_books[1])
  /\ [](Truthy(max_books) /\ pc = "check_books"
          /\ Cardinality(shown) >= max_books[1]
        => Len(books) = max_books[1])
  /\ [][Truthy(max_books) /\ scroll_attempts' = scroll_attempts + 1
        => Len(all_books) < max_books[1]]_vars

\* the cap bites: two titles were shown and one item is returned
C5_Witness ==
  /\ pc = "check_books"
  /\ max_books = <<1>>
  /\ Cardinality(shown) = 2
  /\ Len(books) = 1

\* C6: a snapshot that adds no title ends the enumeration in the same step
\* without a scroll; scroll gestures are issued only by the scroll step of
\* the enumeration loop, and once the enumeration has returned the loop is
\* not entered again; the return happens below the iteration ceiling.
C6_StopsAtFirstEmptyPage ==
  [][/\ (SnapshotStep /\ all_books' = all_books
           => pc' = "check_books" /\ scroll_attempts' = scroll_attempts
              /\ scroll_attempts' < max_scroll_attempts)
     /\ (scroll_attempts' > scroll_attempts => pc = "enum_scroll")
     /\ (pc = "check_books" => pc' \notin {"enum", "enum_scroll"})]_vars

\* pages kept adding titles, then one added nothing: the enumeration has
\* returned after its scrolls, with no cap involved
C6_Witness ==
  /\ pc = "check_books"
  /\ ~Truthy(max_books)
  /\ scroll_attempts = 2
  /\ Len(books) = 2

\* C7: export_book_notes is never invoked more than retry_attempts times
\* for an item, it is not invoked again once an invocation has returned
\* True, and when the item is recorded as failed because every attempt
\* returned False it has been invoked exactly retry_attempts times.
C7_RetryBound ==
  /\ [](nInvoked <= retry_attempts)
  /\ [][/\ (nInvoked' = nInvoked + 1 => ~item_ok)
        /\ (outcomes' = Append(outcomes, "fail")
              => nInvoked = retry_attempts /\ attempt = retry_attempts)]_vars

\* two failed attempts with retry_attempts = 2, then the failure recorded
C7_Witness ==
  /\ retry_attempts = 2
  /\ nInvoked = 2
  /\ pc = "pause"
  /\ outcomes # << >>
  /\ outcomes[Len(outcomes)] = "fail"

\* C8: when navigation has succeeded and the enumeration has returned no
\* item, the next step returns the all-zero statistics, without an error
\* and without any export workflow stage having run.
C8_EmptyCollection ==
  /\ [](nav_result = "tapped" /\ books = << >> /\ pc \in {"check_books", "done"}
          /\ outcome \in {"running", "returned"}
        => export_stats = ZeroStats /\ ~wf_ran)
  /\ [][pc = "check_books" /\ books = << >>
        => pc' = "done" /\ outcome' = "returned"
           /\ export_stats' = ZeroStats /\ ~wf_ran']_vars

\* the run has returned from an empty collection
C8_Witness ==
  /\ pc = "done"
  /\ outcome = "returned"
  /\ nav_result = "tapped"
  /\ books = << >>

C10_NavigationFailureIsFatal ==
  nav_result # "tapped" =>
    /\ pc \notin {"enum", "enum_scroll", "check_books", "item_loop"}
    /\ scroll_attempts = 0 /\ shown = {} /\ visible_books = << >>
    /\ all_books = << >> /\ books = << >>
    /\ ~wf_ran /\ nInvoked = 0
    /\ export_stats = ZeroStats

\* navigation returned False (the snapshot could not be parsed) and the
\* run has ended
C10_Witness ==
  pc = "done" /\ nav_result = "parse_error" /\ outcome = "returned"

\* C11: in navigate_to_collection, when the text match for the library tab
\* finds no element the fixed-coordinate fallback tap is issued exactly once
\* and nothing else is tapped; when the text match finds an element, that
\* element is tapped once and the fallback tap is not issued.
C11_LibraryFallbackOnce ==
  /\ Len(lib_taps) <= 1
  /\ pc \in {"nav_menu", "nav_resolve"} =>
       /\ ~library_found => lib_taps = <<"fallback">>
       /\ library_found => lib_taps = <<"text">>

\* the text match found nothing and the call has gone on past the tab
C11_Witness ==
  pc = "nav_resolve" /\ ~library_found /\ lib_taps = <<"fallback">>

\* C12 as stated: every run of export_collection_notes that ends (normal
\* completion, navigation failure, empty collection, fatal error or
\* interruption) has executed _log_export_summary before control leaves
\* the run function.
C12_SummaryOnEveryExit ==
  pc = "done" => summary_logged >= 1

\* C13 as stated: a KeyboardInterrupt that arrives at any point inside the
\* run reaches the handler of the run function, which logs the partial
\* statistics and then re-raises it; no per-item or per-workflow handler
\* swallows it.
C13_InterruptNeverSwallowed ==
  /\ last = "ki" => pc = "interrupted"
  /\ (pc = "done" /\ outcome = "KeyboardInterrupt") => summary_logged >= 1

\* the positions of the five stages of export_book_notes
StagePcs ==
  {"wf_open", "wf_export", "wf_notebook", "wf_onedrive", "wf_confirm"}

C15_BackInCollectionOnReturn ==
  ((pc = "retry" /\ nInvoked > 0) \/ (pc = "pause" /\ item_ok))
    => at_collection

\* C16: every invocation of export_book_notes by the retry loop, the first
\* and each retry, starts at the first stage, and each later stage is only
\* entered from the stage before it: no retry resumes at the stage that
\* failed or skips an earlier one.
C16_RetryRestartsFromFirstStage ==
  [][/\ nInvoked' = nInvoked + 1 => pc = "retry" /\ pc' = "wf_open"
     /\ (pc' = "wf_open" /\ pc # "wf_open") =>
          pc = "retry" /\ nInvoked' = nInvoked + 1
     /\ (pc' = "wf_export" /\ pc # "wf_export") => pc = "wf_open"
     /\ (pc' = "wf_notebook" /\ pc # "wf_notebook") => pc = "wf_export"
     /\ (pc' = "wf_onedrive" /\ pc # "wf_onedrive") => pc = "wf_notebook"
     /\ (pc' = "wf_confirm" /\ pc # "wf_confirm") => pc = "wf_onedrive"]_vars

\* the second invocation for an item is about to run its first stage
C16_Witness ==
  pc = "wf_open" /\ attempt = 1 /\ nInvoked = 2

\* the elements of a sequence
Range(s) == {s[i] : i \in 1..Len(s)}

C18_Original_TransportErrorAlwaysFatal ==
  last = "exc" => pc = "fatal"

\* the positions of launch, navigation and enumeration
RunPcs ==
  {"launch", "home", "nav_library", "nav_menu", "nav_resolve", "enum",
   "enum_scroll"}

\* C18 amended: a transport error during launch, navigation (the
\* navigate_to_collection of the coordinator's recovery included) or
\* enumeration is fatal: the handler logs the summary and re-raises, and the
\* statistics change no more.  A transport error inside export_book_notes
\* or _return_to_collection during an item is caught: by the handler of
\* export_book_notes, by the coordinator's per-item handler, or by its
\* recovery.
C18_TransportErrorFatalOutsideExport ==
  /\ [][last' = "exc" =>
          IF pc \in RunPcs
          THEN pc' = "fatal"
          ELSE /\ pc \in StagePcs \cup {"wf_unwind", "rtc"}
               /\ pc' \in {"rtc", "item_exc", "home"}
               /\ pc' = "rtc" => rtc_caller' = "wf_exc"
               /\ pc' = "item_exc" => pc = "rtc" /\ rtc_caller = "wf_exc"
               /\ pc' = "home" =>
                    /\ pc = "rtc" /\ rtc_caller = "coord"
                    /\ nav_caller' = "recover"]_vars
  /\ [][pc = "fatal" =>
          /\ pc' = "done" /\ outcome' = "Exception"
          /\ summary_logged' = summary_logged + 1
          /\ export_stats' = export_stats]_vars

\* an error of the first item was caught and counted, then the navigation
\* of the recovery raised and ended the run
C18_Witness ==
  /\ pc = "done" /\ outcome = "Exception" /\ nav_caller = "recover"
  /\ outcomes = <<"error">>

\* C19: on a list that never stabilizes and with no item cap,
\* get_all_books_in_collection issues at most max_scroll_attempts (50)
\* scroll gestures, takes at most as many snapshots, and comes to an end.
C19_UnstableListTerminates ==
  /\ [](scroll_attempts <= max_scroll_attempts
        /\ nSnap <= max_scroll_attempts)
  /\ <>(pc \notin {"enum", "enum_scroll"})

\* the ceiling ended the enumeration: every snapshot added a title
C19_Witness ==
  /\ pc = "check_books"
  /\ scroll_attempts = max_scroll_attempts
  /\ nSnap = max_scroll_attempts
  /\ Len(books) >= max_scroll_attempts

\* C20 as stated: within a run the counters never decrease and
\* failed_books only grows by appending; every item that was counted as
\* attempted has exactly one recorded outcome, counted in exactly one of
\* successful and failed.
C20_EveryItemCountedOnce ==
  /\ [][/\ export_stats'.attempted >= export_stats.attempted
        /\ export_stats'.successful >= export_stats.successful
        /\ export_stats'.failed >= export_stats.failed
        /\ Len(export_stats'.failed_books) >= Len(export_stats.failed_books)
        /\ SubSeq(export_stats'.failed_books, 1,
                  Len(export_stats.failed_books)) = export_stats.failed_books
       ]_vars
  /\ [](pc = "done" =>
          /\ Len(outcomes) = export_stats.attempted
          /\ export_stats.successful + export_stats.failed
               = export_stats.attempted)


\* the stages of export_book_notes in the order of lines 451-494
WorkflowStages ==
  <<"wf_open", "wf_export", "wf_notebook", "wf_onedrive", "wf_confirm">>

\* the return-to-collection stage: the call of line 494
InReturnStage(p, c) == p = "rtc" /\ c = "wf_ok"

\* C21: the stages of export_book_notes are strictly sequential.  Stage
\* k + 1 is entered only by the step in which stage k reported success; the
\* first stage is entered only when the retry loop starts a new invocation;
\* the return-to-collection stage (line 494) is entered only from the
\* confirm stage; no stage is left for itself or for an earlier one, so none
\* is executed twice in one attempt; and export_book_notes returns True
\* (item_ok becomes TRUE) only in a step of the return-to-collection stage.
C21_StagesStrictlySequential ==
  [][/\ \A k \in 2..5 :
          (pc' = WorkflowStages[k] /\ pc # pc') =>
             (pc = WorkflowStages[k - 1] /\ last' = "ok")
     /\ (pc' = "wf_open" /\ pc # pc') =>
          (pc = "retry" /\ nInvoked' = nInvoked + 1)
     /\ (InReturnStage(pc', rtc_caller') /\ pc # "rtc") =>
          (pc = "wf_confirm" /\ last' = "ok")
     /\ (InReturnStage(pc', rtc_caller') /\ pc = "rtc") =>
          InReturnStage(pc, rtc_caller)
     /\ \A k \in 1..5 :
          pc = WorkflowStages[k] =>
            pc' \notin {WorkflowStages[j] : j \in 1..k} \/ UNCHANGED vars
     /\ (item_ok' /\ ~item_ok) =>
          (InReturnStage(pc, rtc_caller) /\ pc' = "pause")]_vars

\* C21 witness: an invocation has gone through all six stages and returned
\* True after an earlier invocation for the same item had failed
C21_Witness ==
  pc = "pause" /\ item_ok /\ nInvoked = 2 /\ export_stats.successful = 1

\* C23: the confirm stage never reports failure: without a confirm button
\* it taps the fallback position and reports True.  So when the destination
\* stage has succeeded and no command raises, the confirm stage is followed
\* by the return to the collection and export_book_notes returns True, the
\* item being counted as successful, whether a confirm button was tapped or
\* only assumed.
C23_ConfirmNeverFails ==
  /\ [](confirm \in {"none", "tapped", "assumed"})
  /\ []((pc = "pause" /\ confirm # "none") => item_ok)
  /\ [][(pc = "wf_confirm" /\ last' = "ok") =>
          (InReturnStage(pc', rtc_caller') /\ confirm' # "none")]_vars
  /\ [][(InReturnStage(pc, rtc_caller) /\ last' = "ok" /\ pc' # "rtc") =>
          /\ pc' = "pause" /\ item_ok' /\ confirm' = confirm
          /\ export_stats'.successful = export_stats.successful + 1]_vars

\* C23 witness: export_book_notes has returned True although no confirm
\* button had been found
C23_Witness ==
  pc = "pause" /\ item_ok /\ confirm = "assumed"

\* the entries of the trace with the given op, by position
Positions(tr, op) == {i \in 1..Len(tr) : tr[i].op = op}

\* a citation style of the format prompt has been seen by a wait
PromptSeen(tr) ==
  \E i \in Positions(tr, "wait") :
    tr[i].found /\ tr[i].text \in Range(CitationStyles)

\* C22 as stated: when _select_export_notebook has returned, it has reported
\* success if no format prompt appeared, and if one appeared "None" is what
\* it tapped.
C22_Original_AbsentPromptIsSuccess ==
  (proc = "_select_export_notebook" /\ ret # "none") =>
     IF PromptSeen(trace)
     THEN \A j \in Positions(trace, "tap") : trace[j].text = "None"
     ELSE ret = "true"

\* C22 amended: when _select_export_notebook has returned without having
\* seen any citation style, it has tapped nothing and has reported success
\* exactly if its last wait saw "OneDrive" (the share sheet is already
\* there), failure otherwise.  When it has seen a citation style, it has
\* tapped at most once, the first element that the search for "None" gave,
\* right after that search, and it has reported success exactly if it
\* tapped.
C22_FormatStage ==
  (proc = "_select_export_notebook" /\ ret # "none") =>
     IF PromptSeen(trace)
     THEN /\ \A j \in Positions(trace, "tap") :
               /\ trace[j].text = "None"
               /\ trace[j].snap = j - 1
               /\ trace[j - 1].op = "find"
               /\ trace[j - 1].text = "None"
               /\ trace[j].x = trace[j - 1].found[1].x
               /\ trace[j].y = trace[j - 1].found[1].y
          /\ Count(trace, "tap") <= 1
          /\ ret = "true" <=> Count(trace, "tap") = 1
     ELSE /\ Count(trace, "tap") = 0
          /\ Len(trace) = Len(CitationStyles) + 1
          /\ trace[Len(trace)] \in {WaitEntry("OneDrive", b) : b \in BOOLEAN}
          /\ ret = "true" <=> trace[Len(trace)].found

\* C22 witness: neither a citation style nor the share sheet was seen, and
\* the stage has reported failure
C22_Witness ==
  /\ proc = "_select_export_notebook"
  /\ ret = "false"
  /\ ~PromptSeen(trace)
  /\ trace[Len(trace)] = WaitEntry("OneDrive", FALSE)

\* the greatest x among the elements
MaxX(els) == CHOOSE m \in {els[i].x : i \in DOMAIN els} :
               \A i \in DOMAIN els : els[i].x <= m

\* the elements of a screen that hold one of the confirm options
ConfirmMatches(scr) ==
  SelectSeq(scr, LAMBDA e : e.has \cap Range(ConfirmOptions) # {})

\* C24 as stated: when _confirm_onedrive_upload has returned, it has tapped
\* exactly once, and if the screen it searched had elements matching the
\* confirm options, the tap went to the greatest x among all those elements.
C24_Original_RightmostOfAllMatches ==
  (proc = "_confirm_onedrive_upload" /\ ret # "none") =>
     /\ Count(trace, "tap") = 1
     /\ proc_loc # << >> =>
          \A j \in Positions(trace, "tap") :
            trace[j].x = MaxX(ConfirmMatches(proc_loc))

\* C24 amended: when _confirm_onedrive_upload has returned, it has tapped
\* exactly once.  If an option was found, it is the first option, in the
\* order Save, Upload, Add, Done, OK, Confirm, whose search gave an element;
\* the tap follows that search at once and went to the element of greatest
\* x among the elements holding that one option, the first of them in the
\* document if several have that x.  Otherwise all six options were waited
\* for and the tap went to (980, 150).
C24_RightmostOfFirstOption ==
  (proc = "_confirm_onedrive_upload" /\ ret # "none") =>
     /\ Count(trace, "tap") = 1
     /\ \A j \in Positions(trace, "tap") :
          IF trace[j].snap > 0
          THEN LET f == trace[j - 1]
               IN /\ trace[j].snap = j - 1
                  /\ f.op = "find"
                  /\ f.text = ConfirmOptions[proc_i]
                  /\ f.found = FindElementsByText(proc_loc, f.text)
                  /\ trace[j].x = MaxX(f.found)
                  /\ \A i \in DOMAIN f.found :
                       f.found[i].x = trace[j].x => trace[j].y <= f.found[i].y
                  /\ \A i \in Positions(trace, "find") :
                       i < j - 1 => trace[i].found = << >>
          ELSE /\ trace[j].x = 980 /\ trace[j].y = 150
               /\ Count(trace, "wait") = Len(ConfirmOptions)
               /\ \A i \in Positions(trace, "find") : trace[i].found = << >>

\* C24 witness: the search for "Save" gave two elements and the second one
\* in the document, which is further right, was tapped
C24_Witness ==
  /\ proc = "_confirm_onedrive_upload"
  /\ ret = "true"
  /\ Len(trace) = 3
  /\ trace[2].op = "find" /\ trace[2].text = "Save"
  /\ Len(trace[2].found) = 2
  /\ trace[3].op = "tap" /\ trace[3].y = 2
  /\ trace[2].found[1].x < trace[3].x

\* node k of the snapshot is a candidate of the collection search
IsCandidate(nodes, target, k) ==
  /\ nodes[k].class = "android.widget.Button"
  /\ Contains(Lower(Strip(nodes[k].desc)), Lower(target))
  /\ nodes[k].bounds # << >>

\* C25: when the collection resolution of navigate_to_collection has
\* tapped, the tap went to the centre of a Button node whose content-desc
\* holds the collection name as a substring, case ignored; no candidate
\* (Button, stripped content-desc holding the name, bounds present) lies
\* higher, and among the candidates at the same height it is the first one
\* in the document, so the choice is a function of the snapshot.  Without a
\* candidate nothing is tapped and False is returned.
C25_TopmostMatchingButton ==
  (proc = "navigate_to_collection" /\ ret # "none") =>
     LET nodes  == proc_loc.nodes
         target == proc_loc.target
         cand   == {k \in DOMAIN nodes : IsCandidate(nodes, target, k)}
     IN IF cand = {}
        THEN ret = "false" /\ Count(trace, "tap") = 0
        ELSE /\ ret = "true"
             /\ Count(trace, "tap") = 1
             /\ \E k \in cand :
                  /\ Contains(Lower(nodes[k].desc), Lower(target))
                  /\ trace[2].op = "tap"
                  /\ trace[2].x = nodes[k].bounds[1]
                  /\ trace[2].y = nodes[k].bounds[2]
                  /\ \A j \in cand :
                       /\ nodes[j].bounds[2] >= nodes[k].bounds[2]
                       /\ nodes[j].bounds[2] = nodes[k].bounds[2] => j >= k

\* C25 witness: two Buttons hold the name, in different case, and the
\* second one in the document, which lies higher, was tapped
C25_Witness ==
  /\ proc = "navigate_to_collection"
  /\ ret = "true"
  /\ Len(proc_loc.nodes) = 2
  /\ \A k \in 1..2 : IsCandidate(proc_loc.nodes, proc_loc.target, k)
  /\ proc_loc.nodes[1].desc # proc_loc.nodes[2].desc
  /\ trace[2].x = 2
  /\ trace[2].y < proc_loc.nodes[1].bounds[2]

\* C26: in _navigate_to_home every back press comes right after a snapshot
\* without a home indicator, at most max_attempts = 10 back presses are
\* issued, none is issued after a snapshot with a home indicator, and the
\* procedure always returns.
C26_HomeRecoveryBounded ==
  /\ [](proc = "_navigate_to_home" =>
          /\ \A j \in Positions(trace, "key") :
               /\ j > 1
               /\ trace[j - 1].op = "dump"
               /\ ~trace[j - 1].indicator
          /\ Count(trace, "key") <= max_attempts
          /\ \A i \in Positions(trace, "dump") :
               trace[i].indicator => i = Len(trace) /\ ret = "returned")
  /\ (proc = "_navigate_to_home") ~> (ret = "returned")

\* C26 witness: the procedure has returned after ten back presses without
\* ever seeing a home indicator
C26_Witness ==
  /\ proc = "_navigate_to_home"
  /\ ret = "returned"
  /\ Count(trace, "key") = max_attempts
  /\ \A i \in Positions(trace, "dump") : ~trace[i].indicator

\* C27: _return_to_collection issues at most max_backs = 5 back presses,
\* each of them right after a snapshot without the collection indicator; it
\* issues none when its first snapshot holds the indicator, and a snapshot
\* with the indicator is the last thing it does before it returns.
C27_ReturnPressesBounded ==
  proc = "_return_to_collection" =>
     /\ Count(trace, "key") <= max_backs
     /\ \A j \in Positions(trace, "key") :
          /\ j > 1
          /\ trace[j - 1] = [op |-> "dump", indicator |-> FALSE]
     /\ (trace # << >> /\ trace[1] = [op |-> "dump", indicator |-> TRUE]) =>
          (Len(trace) = 1 /\ ret = "returned")
     /\ \A i \in Positions(trace, "dump") :
          trace[i].indicator =>
             (ret = "returned" /\ \A j \in Positions(trace, "key") : j < i)
     /\ (ret = "returned" /\ Count(trace, "key") < max_backs) =>
          trace[Len(trace)] = [op |-> "dump", indicator |-> TRUE]

\* C27 witness: the indicator reappeared after two back presses and the
\* procedure returned
C27_Witness ==
  /\ proc = "_return_to_collection"
  /\ ret = "returned"
  /\ Count(trace, "key") = 2
  /\ trace[Len(trace)] = [op |-> "dump", indicator |-> TRUE]

\* C28 as stated: no tap goes to coordinates read from a snapshot that was
\* taken before an earlier state-changing interaction (tap, swipe, key
\* press) of the same procedure.
C28_NoTapFromStaleSnapshot ==
  \A j \in Positions(trace, "tap") :
    trace[j].snap > 0 =>
      \A k \in (trace[j].snap + 1)..(j - 1) : trace[k].op \notin StateChanging

\* C29: a call of tap, swipe, type_text or press_key issues exactly one
\* device command, and no procedure that issues device commands executes a
\* command again or goes on after it has failed: the failed execution is the
\* last one and the call raises.
C29_OneCommandNoRetry ==
  proc \in DeviceCalls =>
     /\ proc \in Primitives =>
          /\ Len(trace) <= 1
          /\ (ret # "none" \/ proc_pc = "sleep") => Len(trace) = 1
          /\ trace # << >> => trace[1].cmd = CommandsOf(proc)[1]
     /\ \A i \in 1..Len(trace) :
          trace[i].answer # "ok" => (i = Len(trace) /\ ret = "raised")

\* C29 witness: the command of press_key failed and the call has raised
\* after that one execution
C29_Witness ==
  /\ proc = "press_key"
  /\ ret = "raised"
  /\ trace = <<[op |-> "adb", cmd |-> "shell input keyevent",
                answer |-> "exc"]>>

\* the stage saw a scrollable area in its snapshot
AreaSeen(tr) == \E i \in Positions(tr, "dump") : tr[i].scrollable

\* what holds of _select_onedrive_share whatever the screen shows: at most
\* three swipes; at most one tap, which is the last interaction, follows
\* the search that gave the destination at once and goes to its first
\* element; no swipe after a search that gave the destination; success
\* exactly if it tapped
ShareStageTaps ==
  /\ Count(trace, "swipe") <= 3
  /\ Count(trace, "tap") <= 1
  /\ \A j \in Positions(trace, "tap") :
       /\ j = Len(trace)
       /\ trace[j - 1] = FindEntry("OneDrive", trace[j - 1].found)
       /\ trace[j].snap = j - 1
       /\ trace[j].x = trace[j - 1].found[1].x
       /\ trace[j].y = trace[j - 1].found[1].y
  /\ \A i \in Positions(trace, "find") :
       trace[i].found # << >> =>
          (i + 1 = Len(trace) /\ trace[i + 1].op = "tap")
  /\ ret = "true" <=> Count(trace, "tap") = 1

\* C30 as stated: the destination stage scrolls at most three times, taps
\* the destination as soon as it is visible, and reports failure only after
\* the scroll attempts are exhausted.
C30_Original_FailureOnlyAfterScrolling ==
  proc = "_select_onedrive_share" =>
     /\ ShareStageTaps
     /\ ret = "false" => Count(trace, "swipe") = 3

\* C30 amended: the destination stage scrolls only if its snapshot has a
\* scrollable area, at most three times; it taps the destination as soon
\* as a search gives it and then stops; it reports failure after three
\* scrolls without the destination or, if there is no scrollable area,
\* without having scrolled at all.
C30_ScrollsOnlyScrollableArea ==
  proc = "_select_onedrive_share" =>
     /\ ShareStageTaps
     /\ \A j \in Positions(trace, "swipe") :
          \E i \in Positions(trace, "dump") : i < j /\ trace[i].scrollable
     /\ ret = "false" =>
          /\ Count(trace, "dump") = 1
          /\ Count(trace, "swipe") = IF AreaSeen(trace) THEN 3 ELSE 0

\* C30 witness: the destination was not visible, the snapshot had no
\* scrollable area, and the stage has reported failure without a swipe
C30_Witness ==
  /\ proc = "_select_onedrive_share"
  /\ ret = "false"
  /\ ~AreaSeen(trace)
  /\ Count(trace, "swipe") = 0

\* the positions of the trace where the third button from the right was
\* tapped
HeuristicTaps(tr) ==
  {i \in Positions(tr, "tap") : tr[i].text = "third from right"}

\* C31: in _open_book_notes_view the third button from the right is tapped
\* at most once, only when the corner of the snapshot has at least three
\* buttons, and only after every pattern of the text match has been tried
\* and every wait for "Annotations" before it has failed; the procedure
\* returns True only right after a wait that saw "Annotations", which itself
\* comes right after a tap on a matched pattern or on the third button.
C31_HeuristicLastAndVerified ==
  proc = "_open_book_notes_view" =>
     /\ Cardinality(HeuristicTaps(trace)) <= 1
     /\ \A h \in HeuristicTaps(trace) :
          /\ proc_loc[1].buttons >= 3
          /\ proc_i = Len(NotebookPatterns)
          /\ \A i \in 1..(h - 1) : trace[i].op = "wait" => ~trace[i].found
          /\ \A i \in 1..(h - 1) :
               (trace[i].op = "tap" /\ trace[i].text \in Range(NotebookPatterns))
                  => trace[i + 1] = WaitEntry("Annotations", FALSE)
          /\ \A m \in proc_loc[1].matched :
               \E i \in 1..(h - 1) :
                 trace[i].op = "tap" /\ trace[i].text = NotebookPatterns[m]
     /\ ret = "true" =>
          /\ Len(trace) >= 2
          /\ trace[Len(trace)] = WaitEntry("Annotations", TRUE)
          /\ trace[Len(trace) - 1].op = "tap"
          /\ trace[Len(trace) - 1].text
               \in Range(NotebookPatterns) \cup {"third from right"}
     /\ (ret = "false" /\ proc_loc[1].buttons >= 3) =>
          HeuristicTaps(trace) # {}

\* C31 witness: a pattern matched and was tapped without reaching the view,
\* then the third of three buttons was tapped and "Annotations" was seen
C31_Witness ==
  /\ proc = "_open_book_notes_view"
  /\ ret = "true"
  /\ proc_loc[1].matched # {}
  /\ proc_loc[1].buttons = 3
  /\ HeuristicTaps(trace) # {}

\* the run or the procedure has come to its end: export_collection_notes
\* has returned or raised, the procedure has returned or raised
Terminated == IF proc = "none" THEN pc = "done" ELSE ret # "none"

\* The measure of what is left to do is a natural number that reads as the
\* tuple <<items left, attempts left for the item, step within the attempt
\* or the item, iterations left of the loop of that step>> in lexicographic
\* order: an item has at most retry_attempts + 2 values of `attempts left`,
\* ten steps and at most 101 iterations left of a loop.
AttemptsSpan == retry_attempts + 3

\* measure of a state of the item loop (lines 839-872) and of what it calls
ItemMeasure(attempts, step, left) ==
  2 + (((Len(books) + 1 - idx) * AttemptsSpan + attempts) * 10 + step) * 102
    + left

\* measure of a state before the item loop (lines 802-837): above every
\* measure of the item loop, which has at most MaxTitles items
StartMeasure(step, left) ==
  2 + ((MaxTitles + 2) * AttemptsSpan * 10 + step) * 102 + left

\* the attempts export_book_notes_with_retry has left (range(retry_attempts))
AttemptsLeft == retry_attempts + 1 - attempt

\* measure of the run; the loops count down: home recovery range(10),
\* overlay dismissal range(3), enumeration 50 scrolls with a snapshot before
\* each, back presses of a failed stage, return to collection range(5),
\* attempts range(retry_attempts), items of the list
RunMeasure ==
  CASE pc = "wf_open"     -> ItemMeasure(AttemptsLeft, 8, 0)
    [] pc = "wf_export"   -> ItemMeasure(AttemptsLeft, 7, 0)
    [] pc = "wf_notebook" -> ItemMeasure(AttemptsLeft, 6, 0)
    [] pc = "wf_onedrive" -> ItemMeasure(AttemptsLeft, 5, 0)
    [] pc = "wf_confirm"  -> ItemMeasure(AttemptsLeft, 4, 0)
    [] pc = "wf_unwind"   -> ItemMeasure(AttemptsLeft, 3, unwind_left)
    [] pc = "rtc" ->
         CASE rtc_caller = "wf_ok" ->
                ItemMeasure(AttemptsLeft, 2, max_backs - rtc_i)
           [] rtc_caller = "wf_exc" ->
                ItemMeasure(AttemptsLeft, 1, max_backs - rtc_i)
           [] OTHER -> ItemMeasure(0, 5, max_backs - rtc_i)
    [] pc = "retry"     -> ItemMeasure(AttemptsLeft, 9, 0)
    [] pc = "pause"     -> ItemMeasure(0, 6, 0)
    [] pc = "item_exc"  -> ItemMeasure(0, 6, 0)
    [] pc = "item_loop" -> ItemMeasure(retry_attempts + 2, 0, 0)
    [] pc = "home" ->
         IF home_caller = "launch"
         THEN StartMeasure(7, max_attempts - home_i)
         ELSE IF nav_caller = "run"
              THEN StartMeasure(6, max_attempts - home_i)
              ELSE ItemMeasure(0, 4, max_attempts - home_i)
    [] pc = "nav_library" ->
         IF nav_caller = "run" THEN StartMeasure(5, 0)
         ELSE ItemMeasure(0, 3, 0)
    [] pc = "nav_menu" ->
         IF nav_caller = "run"
         THEN StartMeasure(4, max_close_attempts - menu_i)
         ELSE ItemMeasure(0, 2, max_close_attempts - menu_i)
    [] pc = "nav_resolve" ->
         IF nav_caller = "run" THEN StartMeasure(3, 0)
         ELSE ItemMeasure(0, 1, 0)
    [] pc = "enum" ->
         StartMeasure(2, 2 * (max_scroll_attempts - scroll_attempts) + 1)
    [] pc = "enum_scroll" ->
         StartMeasure(2, 2 * (max_scroll_attempts - scroll_attempts))
    [] pc = "check_books" -> StartMeasure(1, 0)
    [] pc = "launch"      -> StartMeasure(8, 0)
    [] pc = "idle"        -> StartMeasure(9, 0)
    [] pc = "done"        -> 0
    [] OTHER              -> 1

\* the iterations the loop of a procedure has at most: the commands of a
\* device call, range(10), range(5), the citation styles, range(3), the
\* confirm options, the notebook patterns, the timeout of wait_for_text,
\* the back presses after a failed stage, the stages of export_book_notes
ProcBound ==
  CASE proc \in DeviceCalls -> Len(CommandsOf(proc))
    [] proc = "_navigate_to_home" -> max_attempts
    [] proc = "_return_to_collection" -> max_backs
    [] proc = "_select_export_notebook" -> Len(CitationStyles)
    [] proc = "_select_onedrive_share" -> 3
    [] proc = "_confirm_onedrive_upload" -> Len(ConfirmOptions)
    [] proc = "_open_book_notes_view" -> Len(NotebookPatterns)
    [] proc = "wait_for_text" -> proc_loc[1]
    [] proc = "export_book_notes" /\ proc_pc = "backs" -> proc_loc[1]
    [] proc = "export_book_notes" /\ proc_pc = "stages" -> Len(StageCalls)
    [] OTHER -> 0

\* measure of a procedure: <<running, steps left, iterations left of the
\* loop>> in lexicographic order
ProcMeasure ==
  ((IF ret = "none" THEN 1 ELSE 0) * 10
   + (CASE proc_pc \in {"scroll", "heuristic", "handler"} -> 1
        [] proc_pc \in {"sleep", "share", "none", "area", "patterns",
                        "fallback", "backs", "return"} -> 2
        [] OTHER -> 3)) * 102
  + (IF proc_i < ProcBound THEN ProcBound - proc_i ELSE 0)

Measure == IF proc = "none" THEN RunMeasure ELSE ProcMeasure

\* C32: assuming every device command returns, normally or with an error,
\* export_collection_notes and the procedures it calls terminate: as long
\* as the run (the procedure) has not returned or raised it has a step to
\* take, and every step makes smaller a measure that is a natural number
\* built from the finite bounds of the loops (home recovery, overlay
\* dismissal, enumeration, text polling, share-sheet scrolling, return to
\* collection, retries, item loop).  So no behaviour takes infinitely many
\* steps and none stops before the end.
C32_EveryLoopBounded ==
  /\ [](/\ Measure \in Nat
        /\ ~Terminated => ENABLED NextAll)
  /\ [][Measure' < Measure]_vars

\* C32 witness: the run has returned after an item has used up two
\* attempts, an error of an item was caught and the collection was
\* navigated to again
C32_Witness ==
  /\ proc = "none" /\ pc = "done" /\ outcome = "returned"
  /\ "error" \in Range(outcomes)
  /\ retry_attempts = 2
  /\ Len(books) = 2

\* the stages of the trace that reported failure
FailedStages(tr) ==
  {tr[i].k : i \in {j \in Positions(tr, "stage") : tr[j].result = "false"}}

\* C33: when export_book_notes has returned False because one of the first
\* four stages reported failure (and no command raised), the number of back
\* presses it issued is fixed by the stage: 0 for the annotations view, 1
\* for the export button, 2 for the format choice, 3 for the destination;
\* the back presses are all it did after the failed stage, and
\* _return_to_collection, which looks for the collection view, was not
\* called.
C33_BackPressesFixedByStage ==
  (/\ proc = "export_book_notes"
   /\ ret = "false"
   /\ Count(trace, "raise") = 0
   /\ \A i \in Positions(trace, "stage") : trace[i].result # "exc") =>
     \E k \in 1..4 :
       /\ FailedStages(trace) = {k}
       /\ Len(trace) >= k
       /\ trace[k] = StageEntry(k, "false")
       /\ \A i \in 1..(k - 1) : trace[i] = StageEntry(i, "true")
       /\ Count(trace, "key") = <<0, 1, 2, 3>>[k]
       /\ \A i \in (k + 1)..Len(trace) : trace[i] = KeyBack
       /\ Count(trace, "rtc") = 0

\* C33 witness: the destination stage failed and three back presses were
\* issued
C33_Witness ==
  /\ proc = "export_book_notes"
  /\ ret = "false"
  /\ FailedStages(trace) = {4}
  /\ Count(trace, "key") = 3
  /\ Count(trace, "raise") = 0

\* the titles of a list of elements, in order
TitlesOf(bs) == [i \in DOMAIN bs |-> bs[i].text]

\* C34: with retry_attempts = 0 no stage of export_book_notes is ever
\* executed, nothing is done to the device once the enumeration has
\* returned (no back press, no return to the collection, no recovery: the
\* application stays in the collection view), every item that was taken
\* from the list is counted as attempted, and as failed with its title
\* appended to failed_books as soon as the empty retry loop has returned;
\* a run that returns has counted every enumerated item so.
C34_ZeroRetriesFailEveryItem ==
  retry_attempts = 0 =>
     /\ ~wf_ran
     /\ nInvoked = 0
     /\ pc \notin StagePcs \cup {"wf_unwind", "rtc", "item_exc"}
     /\ nav_caller = "run"
     /\ pc \in {"item_loop", "retry", "pause"} =>
          /\ at_collection
          /\ export_stats.successful = 0
          /\ export_stats.attempted = IF pc = "item_loop" THEN idx - 1 ELSE idx
          /\ export_stats.failed = IF pc = "retry" THEN idx - 1 ELSE
                                   export_stats.attempted
          /\ export_stats.failed_books =
               SubSeq(TitlesOf(books), 1, export_stats.failed)
     /\ (pc = "done" /\ outcome = "returned" /\ books # << >>) =>
          /\ export_stats.attempted = Len(books)
          /\ export_stats.failed = Len(books)
          /\ export_stats.successful = 0
          /\ export_stats.failed_books = TitlesOf(books)

\* C34 witness: a run with retry_attempts = 0 has returned with two
\* enumerated items, both counted as failed
C34_Witness ==
  /\ retry_attempts = 0
  /\ pc = "done" /\ outcome = "returned"
  /\ Len(books) = 2
  /\ export_stats.failed = 2
  /\ Len(export_stats.failed_books) = 2

\* the first snapshot of the enumeration that held the title
FirstPage(pages, t) ==
  CHOOSE k \in 1..Len(pages) :
    /\ \E i \in 1..Len(pages[k]) : pages[k][i].text = t
    /\ \A j \in 1..(k - 1) : \A i \in 1..Len(pages[j]) : pages[j][i].text # t

\* the first element of a snapshot that holds the title
FirstWith(page, t) ==
  page[CHOOSE i \in 1..Len(page) :
         /\ page[i].text = t
         /\ \A j \in 1..(i - 1) : page[j].text # t]

\* the place in the trace where the enumeration ended: its last snapshot
EnumerationEnd(tr) ==
  IF Positions(tr, "dump") = {} THEN 0
  ELSE CHOOSE i \in Positions(tr, "dump") :
         \A j \in Positions(tr, "dump") : j <= i

\* every tap on an item goes to the coordinates the first element with its
\* title had in the first snapshot that held the title, a snapshot taken
\* FirstPage - 1 scrolls into the enumeration
TapsAtDiscovery ==
  \A j \in Positions(trace, "tap") :
    LET t == trace[j].text
        k == FirstPage(proc_loc.pages, t)
    IN /\ trace[j].y = FirstWith(proc_loc.pages[k], t).y
       /\ Cardinality({i \in 1..(trace[j].snap) : trace[i] = ScrollDown})
            = k - 1

\* C35 as stated: every item is tapped at the coordinates recorded at its
\* first discovery, and no scroll gesture is issued after the enumeration
\* has ended.
C35_Original_NoScrollAfterEnumeration ==
  proc = "export_collection_notes" =>
     /\ TapsAtDiscovery
     /\ proc_pc = "items" =>
          \A i \in Positions(trace, "swipe") : i < EnumerationEnd(trace)

\* C35 amended: every item is tapped at the coordinates recorded at its
\* first discovery, and the list of the collection is
\* not scrolled after the enumeration has ended: the only scroll gestures
\* issued afterwards are those of the share sheet.  The list is neither
\* scrolled back to the page of the item nor is the item looked up again:
\* between two taps on items there is no snapshot.
C35_TapsAtDiscoveryCoordinates ==
  proc = "export_collection_notes" =>
     /\ TapsAtDiscovery
     /\ proc_pc = "items" =>
          /\ \A i \in Positions(trace, "swipe") :
               i > EnumerationEnd(trace) => trace[i] = SwipeLeft
          /\ \A j \in Positions(trace, "tap") : j > EnumerationEnd(trace)
          /\ \A i \in 1..(proc_i - 1) :
               \E j \in Positions(trace, "tap") :
                 trace[j].text = proc_loc.all[i].text

\* C35 witness: the second item was first seen after one scroll, at the top
\* of the second snapshot, and was tapped there, without a further
\* snapshot, after the share sheet of the first item had been scrolled
C35_Witness ==
  /\ proc = "export_collection_notes"
  /\ ret = "returned"
  /\ Len(proc_loc.pages) = 3
  /\ Len(proc_loc.pages[1]) = 1
  /\ Len(proc_loc.all) = 2
  /\ \E i, j \in 1..Len(trace) :
       /\ i < j
       /\ trace[i] = SwipeLeft
       /\ trace[j] = BookTap(proc_loc.pages[2][1], 3)
       /\ trace[j].text = proc_loc.all[2].text

\* the bookkeeping of the enumeration before the next snapshot
EnumAcc == [all |-> all_books, seen |-> seen_titles, new |-> FALSE,
            hit |-> FALSE]

\* C36: with max_books = 0 the enumeration has no cap: when
\* get_all_books_in_collection returns, its result holds every title that
\* was shown, once each (so it is empty only if nothing was shown), and
\* whatever the next snapshot shows the bookkeeping of its elements is the
\* same as with max_books absent and never ends the enumeration early.
C36_ZeroCapIsNoCap ==
  max_books = <<0>> =>
     /\ pc = "check_books" =>
          /\ TitleSet(books) = shown
          /\ NoDupTitles(books)
          /\ Len(books) = Cardinality(shown)
     /\ pc = "enum" =>
          \A vis \in Snapshots :
            /\ AddBooks(vis, EnumAcc, max_books)
                 = AddBooks(vis, EnumAcc, << >>)
            /\ ~AddBooks(vis, EnumAcc, max_books).hit

\* C36 witness: with max_books = 0 the enumeration has returned two items
\* after a scroll
C36_Witness ==
  /\ max_books = <<0>>
  /\ pc = "check_books"
  /\ scroll_attempts >= 1
  /\ Len(books) = 2
  /\ Cardinality(shown) = 2

\* the items call number r has processed, and those that failed
ItemsOf(tr, r) == SelectSeq(tr, LAMBDA e : e.run = r)
FailuresOf(tr, r) == SelectSeq(tr, LAMBDA e : e.run = r /\ ~e.ok)

\* C37: each call of export_collection_notes counts from zero in a stats
\* object of its own: the statistics self.export_stats refers to hold the
\* items of the current call only (attempted, successful, failed and the
\* failed titles, in order), and the object the first call returned still
\* holds what it held when it was returned, whatever the second call does.
C37_FreshStatsPerRun ==
  (proc = "export_collection_notes" /\ proc_pc = "loop") =>
     LET cur  == proc_loc.heap[proc_loc.self]
         mine == ItemsOf(trace, proc_i)
         bad  == FailuresOf(trace, proc_i)
     IN /\ cur.attempted = Len(mine)
        /\ cur.failed = Len(bad)
        /\ cur.successful = Len(mine) - Len(bad)
        /\ cur.failed_books = [i \in 1..Len(bad) |-> bad[i].title]
        /\ proc_i = 2 =>
             /\ proc_loc.first # 0
             /\ proc_loc.heap[proc_loc.first] = proc_loc.first_value
             /\ LET old == FailuresOf(trace, 1)
                IN /\ proc_loc.first_value.attempted
                        = Len(ItemsOf(trace, 1))
                   /\ proc_loc.first_value.failed_books
                        = [i \in 1..Len(old) |-> old[i].title]

\* C37 witness: the first call returned statistics with two failed items;
\* the second call has counted one successful item and has returned
C37_Witness ==
  /\ proc = "export_collection_notes" /\ proc_pc = "loop"
  /\ proc_i = 2
  /\ ret = "returned"
  /\ proc_loc.heap[proc_loc.first].failed = 2
  /\ proc_loc.heap[proc_loc.self] =
       [attempted |-> 1, successful |-> 1, failed |-> 0,
        failed_books |-> << >>]

\* the positions of the trace where a home screen indicator was observed
HomeObserved(tr) ==
  {i \in 1..Len(tr) : tr[i].op = "home_check"
                        /\ tr[i].answer \in {"text", "indicator"}}

\* the checks and gestures of return_to_home
HomeOps == {"is_in_book_view", "leave_book", "home_check", "press"}

\* the book view checks made after the attempts were used up
FinalChecks(tr) ==
  {i \in 1..Len(tr) : tr[i].op = "is_in_book_view" /\ tr[i].final}

\* what C38 says of return_to_home itself: at most max_attempts
\* iterations; True at once when a home indicator is observed; False only
\* after all attempts with a book view indicator present at the end, and
\* True without an observed indicator only after all attempts with none
ReturnToHomeContract ==
  /\ proc_i <= return_to_home_max_attempts
  /\ Cardinality({i \in 1..Len(trace) :
                    trace[i].op = "is_in_book_view" /\ ~trace[i].final})
       = proc_i
  /\ \A i \in HomeObserved(trace) :
       /\ proc_loc.home = "true"
       /\ \A j \in (i + 1)..Len(trace) : trace[j].op \notin HomeOps
  /\ proc_loc.home = "false" =>
       /\ proc_i = return_to_home_max_attempts
       /\ \E i \in FinalChecks(trace) : trace[i].answer = TRUE
  /\ (proc_loc.home = "true" /\ HomeObserved(trace) = {}) =>
       /\ proc_i = return_to_home_max_attempts
       /\ \E i \in FinalChecks(trace) : trace[i].answer = FALSE
  /\ proc_loc.home = "none" => FinalChecks(trace) = {}
  /\ (proc = "return_to_home" /\ ret \notin {"none", "raised"}) =>
       ret = proc_loc.home
  /\ proc = "start_kindle_app" =>
       /\ ret = "KindleUIError" => proc_loc.home = "false"
       /\ (proc_loc.home = "false" /\ ret # "none") => ret = "KindleUIError"

\* C38 as stated: the contract of return_to_home, and both callers raise
\* KindleUIError exactly when it has returned False
C38_Original_RaiseExactlyWhenFalse ==
  proc \in HomeCallers =>
    /\ ReturnToHomeContract
    /\ proc = "exporter_navigate_to_collection" =>
         /\ ret = "KindleUIError" => proc_loc.home = "false"
         /\ (proc_loc.home = "false" /\ ret # "none") =>
              ret = "KindleUIError"

\* C38: return_to_home makes at most 3 attempts, returns True as soon as a
\* home indicator is observed, and after its attempts returns False when a
\* book view indicator is present and True otherwise; start_kindle_app
\* raises KindleUIError exactly when it returned False, and
\* navigate_to_collection raises KindleUIError when it returned False and,
\* after it returned True, only from one of its three later stages
\* (Library, Collections or the collection not found).
C38_HomeRecovery ==
  proc \in HomeCallers =>
    /\ ReturnToHomeContract
    /\ proc = "exporter_navigate_to_collection" =>
         /\ (proc_loc.home = "false" /\ ret # "none") =>
              ret = "KindleUIError"
         /\ proc_loc.home = "false" => proc_pc = "result"
         /\ (ret = "KindleUIError" /\ proc_loc.home # "false") =>
              /\ proc_loc.home = "true"
              /\ proc_pc \in {"library", "collections", "collection"}

\* C38 witness: navigate_to_collection used all three attempts without
\* observing a home indicator, assumed home because no book view was
\* present, and raised KindleUIError after max_scrolls scrolls without the
\* collection
C38_Witness ==
  /\ proc = "exporter_navigate_to_collection"
  /\ proc_i = return_to_home_max_attempts
  /\ HomeObserved(trace) = {}
  /\ proc_loc.home = "true"
  /\ proc_pc = "collection"
  /\ proc_loc.scrolls = max_scrolls
  /\ ret = "KindleUIError"

\* C39: remove_duplicate_notes keeps one copy of each distinct note: once
\* it has returned, no two notes of its result are equal and every note of
\* the input is equal to some note of the result.
C39_KeepsOneCopyOfEach ==
  (proc = "remove_duplicate_notes" /\ ret = "returned") =>
     LET notes == proc_loc.notes
         unique == proc_loc.unique
     IN /\ \A i, j \in 1..Len(unique) : unique[i] = unique[j] => i = j
        /\ \A i \in 1..Len(notes) :
             \E j \in 1..Len(unique) : unique[j] = notes[i]
====
